---- MODULE Spec2Model ----
(***************************************************************************)
(* A model of eempy/eem_processing.py: the EEMDataset processing methods   *)
(* and the PARAFAC model life cycle (establish / fit).                     *)
(*                                                                         *)
(* Floating point values are modelled as exact extended rationals <<n, d>>:*)
(* d > 0 is the rational n/d in lowest terms, <<0,0>> is NaN, <<1,0>> is   *)
(* +inf and <<-1,0>> is -inf.  Matrices are sequences of rows, row 1 being *)
(* numpy row 0; indices returned by searches are 0-based, as in the code.  *)
(***************************************************************************)
EXTENDS Integers, Sequences, FiniteSets, TLC

(* ------------------------------------------------------------------ *)
(* Extended rational arithmetic (numpy float64 semantics, exact).      *)
(* ------------------------------------------------------------------ *)
RECURSIVE Gcd(_, _)
Gcd(a, b) == IF b = 0 THEN a ELSE Gcd(b, a % b)

Abs(x) == IF x < 0 THEN -x ELSE x

Sgn(x) == IF x > 0 THEN 1 ELSE IF x < 0 THEN -1 ELSE 0

Lowest(n, d, g) == <<n \div g, d \div g>>

Q(n, d) ==
    IF d = 0 THEN <<Sgn(n), 0>>
    ELSE Lowest(IF d < 0 THEN -n ELSE n, Abs(d), Gcd(Abs(n), Abs(d)))

R(n) == <<n, 1>>

NaN == <<0, 0>>

PInf == <<1, 0>>

NInf == <<-1, 0>>

Zero == <<0, 1>>

One == <<1, 1>>

IsNaN(x) == x = NaN

IsFinite(x) == x[2] # 0

Neg(x) == <<-x[1], x[2]>>

Add(x, y) ==
    IF IsNaN(x) \/ IsNaN(y) THEN NaN
    ELSE IF ~IsFinite(x) /\ ~IsFinite(y) THEN (IF x = y THEN x ELSE NaN)
    ELSE IF ~IsFinite(x) THEN x
    ELSE IF ~IsFinite(y) THEN y
    ELSE Q(x[1] * y[2] + y[1] * x[2], x[2] * y[2])

Sub(x, y) == Add(x, Neg(y))

Mul(x, y) == Q(x[1] * y[1], x[2] * y[2])

Inv(x) ==
    IF IsNaN(x) THEN NaN
    ELSE IF ~IsFinite(x) THEN Zero
    ELSE IF x[1] = 0 THEN PInf
    ELSE Q(x[2], x[1])

Div(x, y) == Mul(x, Inv(y))

\* x < y on floats: false as soon as one side is NaN
Lt(x, y) ==
    /\ ~IsNaN(x)
    /\ ~IsNaN(y)
    /\ x # y
    /\ \/ x = NInf
       \/ y = PInf
       \/ IsFinite(x) /\ IsFinite(y) /\ x[1] * y[2] < y[1] * x[2]

Gt(x, y) == Lt(y, x)

Le(x, y) == ~IsNaN(x) /\ ~IsNaN(y) /\ ~Lt(y, x)

AbsQ(x) == <<Abs(x[1]), x[2]>>

(* ------------------------------------------------------------------ *)
(* Vectors, matrices and stacks.                                       *)
(* ------------------------------------------------------------------ *)
\* numpy arrays hold their values: a vector, a matrix and a stack written
\* out as explicit sequences (of sequences)
Vec(v) == v \o <<>>

Mat(m) == [i \in DOMAIN m |-> Vec(m[i])] \o <<>>

Stack3(t) == [n \in DOMAIN t |-> Mat(t[n])] \o <<>>

RECURSIVE SumSeq(_)
SumSeq(s) == IF s = <<>> THEN Zero ELSE Add(Head(s), SumSeq(Tail(s)))

\* numpy max / min of a vector: NaN as soon as one entry is NaN
RECURSIVE MaxSeq(_)
MaxSeq(s) ==
    IF Len(s) = 1 THEN s[1]
    ELSE LET m == MaxSeq(Tail(s))
         IN  IF IsNaN(s[1]) \/ IsNaN(m) THEN NaN
             ELSE IF Lt(s[1], m) THEN m ELSE s[1]

RECURSIVE MinSeq(_)
MinSeq(s) ==
    IF Len(s) = 1 THEN s[1]
    ELSE LET m == MinSeq(Tail(s))
         IN  IF IsNaN(s[1]) \/ IsNaN(m) THEN NaN
             ELSE IF Lt(m, s[1]) THEN m ELSE s[1]

RECURSIVE Flatten(_)
Flatten(rows) == IF rows = <<>> THEN <<>> ELSE Head(rows) \o Flatten(Tail(rows))

Reverse(s) == Vec([k \in 1..Len(s) |-> s[Len(s) + 1 - k]])

NRows(m) == Len(m)

NCols(m) == IF Len(m) = 0 THEN 0 ELSE Len(m[1])

\* np.array([b]).T.dot(np.array([c])): the outer product of two vectors
Outer(b, c) == Mat([i \in 1..Len(b) |-> [j \in 1..Len(c) |-> Mul(b[i], c[j])]])

(* ------------------------------------------------------------------ *)
(* WavelengthIndex and numpy helpers.                                  *)
(* ------------------------------------------------------------------ *)
Min2(a, b) == IF a < b THEN a ELSE b

Max2(a, b) == IF a > b THEN a ELSE b

\* seq[a:b] of Python for 0 <= a (0-based, half open, clipped to the length)
PySlice(s, a, b) == SubSeq(s, a + 1, Min2(b, Len(s)))

\* whether the 1-based position k lies in the Python range a:b
InPyRange(k, a, b) == a <= k - 1 /\ k - 1 < b

\* utils.dichotomy_search: the 0-based index of the axis entry nearest to
\* the target <<n, d>>, the lower index when two entries are equally near
DichotomySearch(axis, target) ==
    LET dist(k) == Abs(axis[k] * target[2] - target[1])
        best == CHOOSE k \in 1..Len(axis) :
                    \A l \in 1..Len(axis) :
                        dist(k) < dist(l) \/ (dist(k) = dist(l) /\ k <= l)
    IN  best - 1

\* int(np.round(x)) for a finite rational x >= 0: halves round to even
RoundHalfEven(x) ==
    LET fl == x[1] \div x[2]
        twice == 2 * (x[1] - fl * x[2])
    IN  IF twice < x[2] THEN fl
        ELSE IF twice > x[2] THEN fl + 1
        ELSE IF fl % 2 = 0 THEN fl ELSE fl + 1

\* scipy interp1d(x, y, kind='linear', fill_value='extrapolate')(xnew) for
\* ascending integer nodes xs (at least two) and values ys
Interp1dLinear(xs, ys, xnew) ==
    LET n == Len(xs)
        \* np.searchsorted(x, xnew): number of nodes strictly below xnew
        ss == Cardinality({k \in 1..n : xs[k] < xnew})
        hi0 == Max2(1, Min2(ss, n - 1))
        lo == hi0
        hi == hi0 + 1
        slope == Div(Sub(ys[hi], ys[lo]), R(xs[hi] - xs[lo]))
    IN  Add(Mul(slope, R(xnew - xs[lo])), ys[lo])

\* scipy interp1d(x, y, kind='zero', fill_value='extrapolate')(xnew): the
\* spline of order zero is piecewise constant, the value of the last node
\* at or below xnew, and of the first node below all of them
Interp1dZero(xs, ys, xnew) ==
    LET below == {k \in 1..Len(xs) : xs[k] <= xnew}
    IN  IF below = {} THEN ys[1]
        ELSE ys[CHOOSE k \in below : \A l \in below : l <= k]

\* interp1d(x, y, kind=kind, fill_value='extrapolate')(xnew)
interp1d(xs, ys, kind, xnew) ==
    IF kind = "zero" THEN Interp1dZero(xs, ys, xnew) ELSE Interp1dLinear(xs, ys, xnew)

(* ------------------------------------------------------------------ *)
(* SignalCorrectors: one intensity matrix in, one corrected matrix out. *)
(* A corrector that returns a Python tuple is modelled as a sequence    *)
(* whose first entry is the matrix.                                     *)
(* ------------------------------------------------------------------ *)
\* eem_region_masking: returns (masked, mask)
eem_region_masking(intensity, ex_range, em_range, em_min, em_max, ex_min, ex_max, fill_value) ==
    LET em_min_idx == DichotomySearch(em_range, R(em_min))
        em_max_idx == DichotomySearch(em_range, R(em_max))
        ex_min_idx == DichotomySearch(ex_range, R(ex_min))
        ex_max_idx == DichotomySearch(ex_range, R(ex_max))
        inside(i, j) == /\ InPyRange(i, Len(ex_range) - ex_max_idx - 1, Len(ex_range) - ex_min_idx)
                        /\ InPyRange(j, em_min_idx, em_max_idx + 1)
        mask == Mat([i \in 1..NRows(intensity) |-> [j \in 1..NCols(intensity) |->
                    IF inside(i, j) THEN Zero ELSE One]])
        masked == Mat([i \in 1..NRows(intensity) |-> [j \in 1..NCols(intensity) |->
                    IF mask[i][j] = Zero /\ fill_value = "nan" THEN NaN
                    ELSE IF mask[i][j] = Zero /\ fill_value = "zero" THEN Zero
                    ELSE intensity[i][j]]])
    IN  <<masked, mask>>

\* eem_cutting with the upper emission boundary left out
eem_cutting_exclusive(intensity, ex_range, em_range, em_min, em_max, ex_min, ex_max) ==
    LET em_min_idx == DichotomySearch(em_range, R(em_min))
        em_max_idx == DichotomySearch(em_range, R(em_max))
        ex_min_idx == DichotomySearch(ex_range, R(ex_min))
        ex_max_idx == DichotomySearch(ex_range, R(ex_max))
        rows == PySlice(intensity, Len(ex_range) - ex_max_idx - 1, Len(ex_range) - ex_min_idx)
        intensity_cut == [i \in 1..Len(rows) |-> PySlice(rows[i], em_min_idx, em_max_idx)]
        em_range_cut == PySlice(em_range, em_min_idx, em_max_idx)
        ex_range_cut == PySlice(ex_range, ex_min_idx, ex_max_idx + 1)
    IN  <<intensity_cut, ex_range_cut, em_range_cut>>

\* eem_cutting: returns (intensity_cut, ex_range_cut, em_range_cut)
eem_cutting(intensity, ex_range, em_range, em_min, em_max, ex_min, ex_max) ==
    LET em_min_idx == DichotomySearch(em_range, R(em_min))
        em_max_idx == DichotomySearch(em_range, R(em_max))
        ex_min_idx == DichotomySearch(ex_range, R(ex_min))
        ex_max_idx == DichotomySearch(ex_range, R(ex_max))
        rows == PySlice(intensity, Len(ex_range) - ex_max_idx - 1, Len(ex_range) - ex_min_idx)
        intensity_cut == [i \in 1..Len(rows) |-> PySlice(rows[i], em_min_idx, em_max_idx + 1)]
        em_range_cut == PySlice(em_range, em_min_idx, em_max_idx + 1)
        ex_range_cut == PySlice(ex_range, ex_min_idx, ex_max_idx + 1)
    IN  <<intensity_cut, ex_range_cut, em_range_cut>>

\* eem_raman_normalization with from_blank=False: returns (intensity / manual_rsu, manual_rsu)
eem_raman_normalization(intensity, manual_rsu) ==
    <<Mat([i \in 1..NRows(intensity) |-> [j \in 1..NCols(intensity) |->
          Div(intensity[i][j], R(manual_rsu))]]), R(manual_rsu)>>

\* eem_gaussian_filter: scipy.ndimage.gaussian_filter is external; its result
\* has the shape of the input and is a new array.  With truncate * sigma
\* below half a cell the kernel is the single centre tap (identity); any
\* wider kernel is represented by the 3-tap row/column mean with 'reflect'
\* borders, NaN propagating.
eem_gaussian_filter(intensity, wide) ==
    IF ~wide THEN intensity
    ELSE LET I == NRows(intensity)
             J == NCols(intensity)
             at(m, i, j) == m[Max2(1, Min2(I, i))][Max2(1, Min2(J, j))]
             along_em == Mat([i \in 1..I |-> [j \in 1..J |->
                            Div(Add(Add(at(intensity, i, j - 1), at(intensity, i, j)),
                                    at(intensity, i, j + 1)), R(3))]])
         IN  Mat([i \in 1..I |-> [j \in 1..J |->
                Div(Add(Add(at(along_em, i - 1, j), at(along_em, i, j)),
                        at(along_em, i + 1, j)), R(3))]])

\* eem_ife_correction: intensity * 10 ** (cuvette_length * (A_ex + A_em)).
\* The absorbance interpolant is external (scipy interp1d) and the power is
\* not rational in general: the absorbance sum per cell is drawn from whole
\* numbers, ife_exponent[i][j], so that the factor is an exact power of ten.
RECURSIVE Pow10(_)
Pow10(k) == IF k = 0 THEN 1 ELSE 10 * Pow10(k - 1)

eem_ife_correction(intensity, ife_exponent) ==
    Mat([i \in 1..NRows(intensity) |-> [j \in 1..NCols(intensity) |->
        Mul(intensity[i][j], R(Pow10(ife_exponent[i][j])))]])

\* One axis of scipy's linear RegularGridInterpolator: for ascending nodes
\* and a point x within them, the lower node lo (1-based), the upper node
\* and the normalised distance t of x from the lower node (0 on an axis of
\* a single node)
GridCell(grid, x) ==
    LET n == Len(grid)
        below == Cardinality({k \in 1..n : grid[k] < x})
        lo == IF n = 1 THEN 1 ELSE Max2(1, Min2(below, n - 1))
        hi == IF n = 1 THEN 1 ELSE lo + 1
        t == IF grid[hi] = grid[lo] THEN Zero ELSE Q(x - grid[lo], grid[hi] - grid[lo])
    IN  <<lo, hi, t>>

\* the interpolant over the ascending grid (ex, em) evaluated at (u, v):
\* the weighted sum of the four corners; values[k] is the row of ex[k]
Bilinear(values, ex, em, u, v) ==
    LET cu == GridCell(ex, u)
        cv == GridCell(em, v)
        corner(k, l, wk, wl) == Mul(Mul(wk, wl), values[k][l])
    IN  Add(Add(corner(cu[1], cv[1], Sub(One, cu[3]), Sub(One, cv[3])),
                corner(cu[1], cv[2], Sub(One, cu[3]), cv[3])),
            Add(corner(cu[2], cv[1], cu[3], Sub(One, cv[3])),
                corner(cu[2], cv[2], cu[3], cv[3])))

\* The requested points are built as (em_new, ex_new) pairs for a grid
\* whose dimensions are (ex_old, em_old): with bounds_error left at True
\* the interpolator raises ValueError as soon as a new emission wavelength
\* lies outside the old excitation axis, or a new excitation wavelength
\* outside the old emission axis.
eem_interpolation_raises(ex_range_old, em_range_old, ex_range_new, em_range_new) ==
    \/ \E j \in 1..Len(em_range_new) :
           \/ em_range_new[j] < ex_range_old[1]
           \/ em_range_new[j] > ex_range_old[Len(ex_range_old)]
    \/ \E i \in 1..Len(ex_range_new) :
           \/ ex_range_new[i] < em_range_old[1]
           \/ ex_range_new[i] > em_range_old[Len(em_range_old)]

\* eem_interpolation: cell (i, j) of the result is the interpolant at
\* (em_range_new[j], ex_range_new[::-1][i])
eem_interpolation(intensity, ex_range_old, em_range_old, ex_range_new, em_range_new) ==
    LET values == Reverse(intensity)
        exrev_new == Reverse(ex_range_new)
    IN  Mat([i \in 1..Len(ex_range_new) |-> [j \in 1..Len(em_range_new) |->
            Bilinear(values, ex_range_old, em_range_old, em_range_new[j], exrev_new[i])]])

\* eem_nan_imputing with prior_mask=None: scipy griddata (external) keeps
\* every non-NaN sample and fills each NaN cell; the filled value is drawn
\* by the caller (fill), one value per call
eem_nan_imputing(intensity, fill) ==
    Mat([i \in 1..NRows(intensity) |-> [j \in 1..NCols(intensity) |->
        IF IsNaN(intensity[i][j]) THEN fill ELSE intensity[i][j]]])

\* eems_tf_normalization: returns (eem_stack_normalized, weights)
eems_tf_normalization(eem_stack) ==
    LET tf_list == Vec([n \in 1..Len(eem_stack) |-> SumSeq(Flatten(eem_stack[n]))])
        mean == Div(SumSeq(tf_list), R(Len(tf_list)))
        weights == Vec([n \in 1..Len(eem_stack) |-> Div(tf_list[n], mean)])
        normalized == Vec([n \in 1..Len(eem_stack) |->
                          Mat([i \in 1..NRows(eem_stack[n]) |-> [j \in 1..NCols(eem_stack[n]) |->
                              Div(eem_stack[n][i][j], weights[n])]])])
    IN  <<normalized, weights>>

(* ------------------------------------------------------------------ *)
(* Raman and Rayleigh scatter masking.                                 *)
(* ------------------------------------------------------------------ *)
\* -ex / (0.00036 * ex - 1), the Raman ridge of an excitation wavelength
RamanLambda(ex) == Q(ex * 100000, 100000 - 36 * ex)

\* int(np.round(tolerance / (em_range[1] - em_range[0])))
TolEmIdx(tolerance, em_range) == RoundHalfEven(Q(tolerance, em_range[2] - em_range[1]))

\* em_range[1] on an emission axis of a single wavelength: IndexError
tol_emidx_raises(em_range) == Len(em_range) < 2

\* The three-way branch shared by the ridge loops: the Python column range
\* a:b that is set to 0 in a row's mask.  halfband is TRUE for the first
\* order Rayleigh ridge, whose last branch starts at the ridge itself.
BandRange(lam, tolerance, em_range, halfband) ==
    LET tol == R(tolerance)
        em0 == R(em_range[1])
        tol_emidx == TolEmIdx(tolerance, em_range)
    IN  IF Le(lam, em0) /\ Le(em0, Add(lam, tol))
        THEN <<0, DichotomySearch(em_range, Add(lam, tol)) + 1>>
        ELSE IF Le(Sub(lam, tol), em0)
        THEN <<0, DichotomySearch(em_range, lam) + tol_emidx + 1>>
        ELSE IF halfband
        THEN LET emidx == DichotomySearch(em_range, lam)
             IN  <<emidx, emidx + tol_emidx + 1>>
        ELSE LET emidx == DichotomySearch(em_range, Sub(lam, tol))
             IN  <<emidx, emidx + 2 * tol_emidx + 1>>

\* mask rows: row exidx = I - s - 1 carries the band of ex_range[s], whose
\* ridge wavelength is lambda_em[s]
RidgeMask(intensity, em_range, tolerance, lambda_em, halfband) ==
    LET band == Vec([i \in 1..NRows(intensity) |->
                    BandRange(lambda_em[Len(lambda_em) - i + 1], tolerance, em_range, halfband)])
    IN  Mat([i \in 1..NRows(intensity) |-> [j \in 1..NCols(intensity) |->
            IF InPyRange(j, band[i][1], band[i][2]) THEN Zero ELSE One]])

RECURSIVE PickWhere(_, _)
\* seq[np.where(flags)]: the entries of seq at the positions flagged TRUE
PickWhere(seq, flags) ==
    IF seq = <<>> THEN <<>>
    ELSE (IF Head(flags) THEN <<Head(seq)>> ELSE <<>>) \o PickWhere(Tail(seq), Tail(flags))

\* What interp1d does with a single node is the installed scipy's choice:
\* releases that ask for two entries raise ValueError from the constructor,
\* later ones accept one entry, and the linear kind then divides 0 by 0 and
\* answers NaN everywhere; the spline of order zero answers the one value.
SingleNode == {"ValueError", "accepted"}

\* One line of the 1-D fill: xs ascending wavelengths, ys the line's values,
\* valid[k] iff mask = 1 there.  np.min of an empty selection and interp1d
\* on no node raise ValueError, which the loop catches: the line is then
\* left as it is.  single is what interp1d does with a single node.
InterpLine(xs, ys, valid, kind, single) ==
    LET x == PickWhere(xs, valid)
        y == PickWhere(ys, valid)
    IN  IF \A k \in 1..Len(xs) : valid[k] THEN ys
        ELSE IF Len(x) = 0 THEN ys
        ELSE IF Len(x) = 1 /\ single = "ValueError" THEN ys
        ELSE IF Len(x) = 1 /\ kind # "zero" THEN Vec([k \in 1..Len(xs) |-> NaN])
        ELSE Vec([k \in 1..Len(xs) |-> interp1d(x, y, kind, xs[k])])

\* the 1-D fill along 'ex' (every column) or 'em' (every row)
InterpFill(intensity, mask, ex_range, em_range, axis, kind, single) ==
    LET I == NRows(intensity)
        J == NCols(intensity)
        colLine(j) == InterpLine(ex_range,
                                 Vec([k \in 1..I |-> intensity[I + 1 - k][j]]),
                                 Vec([k \in 1..I |-> mask[I + 1 - k][j] = One]), kind, single)
        rowLine(i) == InterpLine(em_range, intensity[i], Vec([k \in 1..J |-> mask[i][k] = One]),
                                 kind, single)
        columns == Vec([j \in 1..J |-> colLine(j)])
    IN  IF axis = "ex" THEN Mat([i \in 1..I |-> [j \in 1..J |-> columns[j][I + 1 - i]]])
        ELSE IF axis = "em" THEN Mat([i \in 1..I |-> rowLine(i)])
        ELSE intensity

FillMasked(intensity, mask, v) ==
    Mat([i \in 1..NRows(intensity) |-> [j \in 1..NCols(intensity) |->
        IF mask[i][j] = Zero THEN v ELSE intensity[i][j]]])

\* axis='grid' calls eem_nan_imputing(intensity_masked, method=...) without
\* the ex_range and em_range it requires: TypeError
eem_raman_masking_raises(method, axis) == method # "nan" /\ axis = "grid"

\* eem_raman_masking: returns (intensity_masked, raman_mask)
eem_raman_masking(intensity, ex_range, em_range, tolerance, method, axis, single) ==
    LET lambda_em == Vec([s \in 1..Len(ex_range) |-> RamanLambda(ex_range[s])])
        raman_mask == RidgeMask(intensity, em_range, tolerance, lambda_em, FALSE)
    IN  IF method = "nan" THEN <<FillMasked(intensity, raman_mask, NaN), raman_mask>>
        ELSE <<InterpFill(intensity, raman_mask, ex_range, em_range, axis, method, single),
               raman_mask>>

RayleighO1(ex) == R(ex)

RayleighO2(ex) == R(ex * 2)

\* the first loop also zeroes everything below the ridge in the rows of its
\* last branch: intensity_masked[exidx, 0: emidx] = 0
RayleighBelowRidge(intensity, ex_range, em_range, tolerance_o1) ==
    LET tol == R(tolerance_o1)
        em0 == R(em_range[1])
        lam(i) == RayleighO1(ex_range[Len(ex_range) - i + 1])
        lastBranch(i) == /\ ~(Le(lam(i), em0) /\ Le(em0, Add(lam(i), tol)))
                         /\ ~Le(Sub(lam(i), tol), em0)
        \* the number of leading columns zeroed in each row
        below == Vec([i \in 1..NRows(intensity) |->
                     IF lastBranch(i) THEN DichotomySearch(em_range, lam(i)) ELSE 0])
    IN  Mat([i \in 1..NRows(intensity) |-> [j \in 1..NCols(intensity) |->
            IF InPyRange(j, 0, below[i]) THEN Zero ELSE intensity[i][j]]])

RayleighStep(intensity, mask, ex_range, em_range, axis, itp, single) ==
    IF itp = "zero" THEN FillMasked(intensity, mask, Zero)
    ELSE IF itp = "nan" THEN FillMasked(intensity, mask, NaN)
    ELSE InterpFill(intensity, mask, ex_range, em_range, axis, itp, single)

eem_rayleigh_masking_raises(axis_o1, axis_o2, method_o1, method_o2) ==
    \/ method_o1 \notin {"zero", "nan"} /\ axis_o1 = "grid"
    \/ method_o2 \notin {"zero", "nan"} /\ axis_o2 = "grid"

\* eem_rayleigh_masking: returns (intensity_masked, (mask_o1, mask_o2))
eem_rayleigh_masking(intensity, ex_range, em_range, tolerance_o1, tolerance_o2, axis_o1, axis_o2, method_o1, method_o2, single) ==
    LET lambda_em_o1 == Vec([s \in 1..Len(ex_range) |-> RayleighO1(ex_range[s])])
        lambda_em_o2 == Vec([s \in 1..Len(ex_range) |-> RayleighO2(ex_range[s])])
        mask_o1 == RidgeMask(intensity, em_range, tolerance_o1, lambda_em_o1, TRUE)
        mask_o2 == RidgeMask(intensity, em_range, tolerance_o2, lambda_em_o2, FALSE)
        below == RayleighBelowRidge(intensity, ex_range, em_range, tolerance_o1)
        after1 == RayleighStep(below, mask_o1, ex_range, em_range, axis_o1, method_o1, single)
        after2 == RayleighStep(after1, mask_o2, ex_range, em_range, axis_o2, method_o2, single)
    IN  <<after2, <<mask_o1, mask_o2>>>>

(* ------------------------------------------------------------------ *)
(* StackProcessor.                                                     *)
(* ------------------------------------------------------------------ *)
\* process_eem_stack: f is applied to every sample, f_output[n] being
\* f(eem_stack[n], *args); when f returns a tuple (tupled) its first entry
\* is stacked and the rest collected.  The result is always the pair
\* (np.array(processed), other_outputs).
process_eem_stack(f_output, tupled) ==
    LET outs == Vec(f_output)
        processed == Vec([n \in 1..Len(outs) |-> IF tupled THEN outs[n][1] ELSE outs[n]])
        other_outputs == IF tupled THEN Vec([n \in 1..Len(outs) |-> Tail(outs[n])])
                         ELSE <<>>
    IN  <<processed, other_outputs>>

(* ------------------------------------------------------------------ *)
(* PARAFAC: the post-processing of the factorization in establish.     *)
(* Factor matrices are numpy arrays a (N x R), b (I x R), c (J x R),    *)
(* stored row-major: a[n][r].                                          *)
(* ------------------------------------------------------------------ *)
Col(m, r) == Vec([k \in 1..Len(m) |-> m[k][r]])

FromCols(cols, len) == Mat([k \in 1..len |-> [r \in 1..Len(cols) |-> cols[r][k]]])

NegV(v) == Vec([k \in 1..Len(v) |-> Neg(v[k])])

ScaleV(v, x) == Vec([k \in 1..Len(v) |-> Mul(v[k], x)])

DivV(v, x) == Vec([k \in 1..Len(v) |-> Div(v[k], x)])

RECURSIVE IsqrtSearch(_, _, _)
IsqrtSearch(lo, hi, n) ==
    IF lo >= hi THEN lo
    ELSE LET mid == (lo + hi + 1) \div 2
         IN  IF mid * mid <= n THEN IsqrtSearch(mid, hi, n) ELSE IsqrtSearch(lo, mid - 1, n)

Isqrt(n) == IsqrtSearch(0, n, n)

\* the square root of a value whose root is rational (the model's factor
\* candidates are chosen so that every standard deviation is)
SqrtQ(x) ==
    IF ~IsFinite(x) THEN (IF x = NInf THEN NaN ELSE x)
    ELSE IF x[1] < 0 THEN NaN
    ELSE <<Isqrt(x[1]), Isqrt(x[2])>>

\* numpy ndarray.std(): the population standard deviation
Square(x) == Mul(x, x)

Std(v) ==
    LET mean == Div(SumSeq(v), R(Len(v)))
        sq == [k \in 1..Len(v) |-> Square(Sub(v[k], mean))]
    IN  SqrtQ(Div(SumSeq(sq), R(Len(v))))

\* abs(v.min()) > v.max()
NegDominant(v) == Gt(AbsQ(MinSeq(v)), MaxSeq(v))

\* a sign resolution that only ever looks at the score
sign_resolution_score_only(a, b, c) ==
    IF Lt(SumSeq(a), Zero) THEN <<NegV(a), b, NegV(c)>> ELSE <<a, b, c>>

\* lines 852-861: sign resolution of one component (unconstrained fit only)
sign_resolution(a, b, c) ==
    IF Lt(SumSeq(a), Zero)
    THEN IF NegDominant(b) THEN <<NegV(a), NegV(b), c>>
         ELSE <<NegV(a), b, NegV(c)>>
    ELSE IF NegDominant(b) /\ NegDominant(c) THEN <<a, NegV(b), NegV(c)>>
    ELSE <<a, b, c>>

\* lines 863-874: loadings normalization of one component
\* the three statements both branches share: b and c are divided by their
\* scale (stdb, stdc or maxb, maxc) and a is multiplied by both
rescale(a, b, c, scale_b, scale_c) ==
    <<ScaleV(ScaleV(a, scale_b), scale_c), DivV(b, scale_b), DivV(c, scale_c)>>

loadings_normalize(a, b, c, loadings_normalization) ==
    IF loadings_normalization = "sd" THEN rescale(a, b, c, Std(b), Std(c))
    ELSE IF loadings_normalization = "maximum" THEN rescale(a, b, c, MaxSeq(b), MinSeq(c))
    ELSE <<a, b, c>>

\* loadings normalization of the component (a, b, c) the sign resolution left
normalize_resolved(s, loadings_normalization) ==
    loadings_normalize(s[1], s[2], s[3], loadings_normalization)

\* lines 849-876, one pass of the loop over r
establish_component(a, b, c, non_negativity, loadings_normalization) ==
    normalize_resolved(IF non_negativity THEN <<a, b, c>> ELSE sign_resolution(a, b, c),
                       loadings_normalization)

\* tensorly cp_to_tensor of (weights, [a, b, c])
cp_to_tensor(cptensors) ==
    LET w == cptensors[1]
        a == cptensors[2][1]
        b == cptensors[2][2]
        c == cptensors[2][3]
    IN  Stack3([n \in 1..Len(a) |-> [i \in 1..Len(b) |-> [j \in 1..Len(c) |->
            SumSeq([r \in 1..Len(w) |-> Mul(Mul(w[r], a[n][r]), Mul(b[i][r], c[j][r]))])]]])

\* a pandas DataFrame: (values, index, columns)
DataFrame(values, index, columns) == <<values, index, columns>>

ComponentLabels(rank, suffix) ==
    [r \in 1..rank |-> <<"component", r, suffix>>]

\* dataset.index when it is a non-empty list, else 1..N
RowLabels(index, n) == IF index # <<>> THEN index ELSE [k \in 1..n |-> k]

\* Lines 847-923 for sort_em=False: everything establish derives from the
\* factorization result (weights, [a, b, c]) before it is stored on self.
\* lines 849-876: the loop over r, which rewrites the columns of a, b and
\* c in place; the result lists the rewritten (a[:, r], b[:, r], c[:, r])
establish_loop(cptensors, cfg) ==
    Vec([r \in 1..cfg.rank |->
            establish_component(Col(cptensors[2][1], r), Col(cptensors[2][2], r),
                                Col(cptensors[2][3], r),
                                cfg.non_negativity, cfg.loadings_normalization)])

\* lines 875-876: component_stack[r] = outer(b[:, r], c[:, r])
establish_components(comp) == Vec([r \in 1..Len(comp) |-> Outer(comp[r][2], comp[r][3])])

\* lines 878-879: a * tf_weights[:, newaxis] under tf_normalization, else a
establish_score(a, tf_weights, cfg) ==
    IF cfg.tf_normalization
    THEN Mat([n \in 1..Len(a) |-> [r \in 1..cfg.rank |-> Mul(a[n][r], tf_weights[n])]])
    ELSE a

\* line 881: fmax = a * component_stack.max(axis=(1, 2))
establish_fmax(score, component_stack) ==
    Mat([n \in 1..Len(score) |-> [r \in 1..Len(component_stack) |->
            Mul(score[n][r], MaxSeq(Flatten(component_stack[r])))]])

\* lines 897-923 for sort_em=False: the frames and the values stored on self
establish_frames(mutated, score, component_stack, rows, labels, dataset) ==
    [score |-> DataFrame(score, rows, labels),
     ex_loadings |-> DataFrame(Reverse(mutated[2][2]), dataset.ex_range, labels),
     em_loadings |-> DataFrame(mutated[2][3], dataset.em_range, labels),
     fmax |-> DataFrame(establish_fmax(score, component_stack), rows, labels),
     component_stack |-> component_stack,
     cptensors |-> mutated,
     eem_stack_train |-> dataset.eem_stack.arr,
     ex_range |-> dataset.ex_range,
     em_range |-> dataset.em_range,
     eem_stack_reconstructed |-> cp_to_tensor(mutated)]

\* lines 878-923 on the factors a, b, c the loop left in cptensors
establish_store(mutated, component_stack, tf_weights, cfg, dataset) ==
    establish_frames(mutated, establish_score(mutated[2][1], tf_weights, cfg), component_stack,
                     RowLabels(dataset.index, Len(mutated[2][1])),
                     ComponentLabels(cfg.rank, ""), dataset)

\* the factors after the loop, from the rewritten columns
establish_mutated(cptensors, comp) ==
    <<cptensors[1],
      <<FromCols([r \in 1..Len(comp) |-> comp[r][1]], Len(cptensors[2][1])),
        FromCols([r \in 1..Len(comp) |-> comp[r][2]], Len(cptensors[2][2])),
        FromCols([r \in 1..Len(comp) |-> comp[r][3]], Len(cptensors[2][3]))>>>>

establish_after_loop(cptensors, comp, tf_weights, cfg, dataset) ==
    establish_store(establish_mutated(cptensors, comp), establish_components(comp),
                    tf_weights, cfg, dataset)

establish_derive(cptensors, tf_weights, cfg, dataset) ==
    establish_after_loop(cptensors, establish_loop(cptensors, cfg), tf_weights, cfg, dataset)

(* ------------------------------------------------------------------ *)
(* eems_fit_components: ordinary least squares against the components. *)
(* ------------------------------------------------------------------ *)
Dot(u, v) == SumSeq([k \in 1..Len(u) |-> Mul(u[k], v[k])])

\* LinearRegression(fit_intercept=False).fit(x, y).coef_ for one or two
\* regressors (scipy lstsq: the minimum-norm solution when x is singular)
\* one regressor: y.x / x.x, and 0 for a regressor that is all zero
ols_one(g11, y1) == <<IF g11 = Zero THEN Zero ELSE Div(y1, g11)>>

\* two collinear regressors x2 = beta * x1: the minimum-norm solution
ols_scaled(s, beta) == <<s, Mul(s, beta)>>

ols_collinear(g11, y1, beta) ==
    ols_scaled(Div(Div(y1, g11), Add(One, Mul(beta, beta))), beta)

\* two regressors, from the Gram matrix (g11, g12, g22), its determinant
\* and the moments (y1, y2)
ols_solve(g11, g12, g22, y1, y2, det) ==
    IF det # Zero
    THEN <<Div(Sub(Mul(g22, y1), Mul(g12, y2)), det),
           Div(Sub(Mul(g11, y2), Mul(g12, y1)), det)>>
    ELSE IF g11 = Zero /\ g22 = Zero THEN <<Zero, Zero>>
    ELSE IF g11 = Zero THEN <<Zero, Div(y2, g22)>>
    ELSE ols_collinear(g11, y1, Div(g12, g11))

ols_two(g11, g12, g22, y1, y2) ==
    ols_solve(g11, g12, g22, y1, y2, Sub(Mul(g11, g22), Mul(g12, g12)))

ols_coef(xs, y) ==
    IF Len(xs) = 1 THEN ols_one(Dot(xs[1], xs[1]), Dot(y, xs[1]))
    ELSE ols_two(Dot(xs[1], xs[1]), Dot(xs[1], xs[2]), Dot(xs[2], xs[2]),
                 Dot(y, xs[1]), Dot(y, xs[2]))

\* the assert of line 423 compares eem_stack.shape[1:], a pair (I, J), with
\* component_stack.shape, a triple (R, I, J)
fit_shapes_agree(eem_stack, component_stack) ==
    <<NRows(eem_stack[1]), NCols(eem_stack[1])>>
        = <<Len(component_stack), NRows(component_stack[1]), NCols(component_stack[1])>>

\* lines 424-436: (score_sample, fmax_sample, eem_stack_pred)
\* x = component_stack.reshape([R, -1]).T, kept as its R columns
regressors(component_stack) ==
    Vec([r \in 1..Len(component_stack) |-> Flatten(component_stack[r])])

\* score_sample: reg.coef_ of every sample
score_sample(eem_stack, x) ==
    Vec([n \in 1..Len(eem_stack) |-> ols_coef(x, Flatten(eem_stack[n]))])

\* fmax_sample: reg.coef_ * max_values of every sample
fmax_sample(coef, component_stack) ==
    Vec([n \in 1..Len(coef) |-> [r \in 1..Len(component_stack) |->
            Mul(coef[n][r], MaxSeq(Flatten(component_stack[r])))]])

\* eem_stack_pred: reg.predict(x) of every sample, reshaped to (I, J)
eem_stack_pred(coef, eem_stack, component_stack) ==
    Stack3([n \in 1..Len(eem_stack) |->
               [i \in 1..NRows(eem_stack[n]) |-> [j \in 1..NCols(eem_stack[n]) |->
                   SumSeq([r \in 1..Len(component_stack) |->
                       Mul(coef[n][r], component_stack[r][i][j])])]]])

fit_outputs(coef, eem_stack, component_stack) ==
    <<coef, fmax_sample(coef, component_stack), eem_stack_pred(coef, eem_stack, component_stack)>>

eems_fit_components(eem_stack, component_stack) ==
    fit_outputs(score_sample(eem_stack, regressors(component_stack)), eem_stack, component_stack)

(* ------------------------------------------------------------------ *)
(* The factorization routine (tensorly parafac / non_negative_parafac) *)
(* is external: its result is drawn from a bounded family of factor     *)
(* triples whose shapes follow the stack.                               *)
(* ------------------------------------------------------------------ *)
\* a vector whose lower half is x and upper half y (its standard deviation
\* is rational for every even length, and 0 for length 1)
HalfVec(len, x, y) == [k \in 1..len |-> IF 2 * k <= len THEN R(x) ELSE R(y)]

AUp(n) == [k \in 1..n |-> R(2 * k - 1)]

AFlat(n) == [k \in 1..n |-> R(n)]

AZeroSum(n) == [k \in 1..n |-> IF k % 2 = 1 THEN R(-1) ELSE R(1)]

\* the components a non-negative factorization may return
NonNegComponents(N, I, J) ==
    { <<AUp(N), HalfVec(I, 1, 3), HalfVec(J, 3, 1)>>,
      <<AFlat(N), HalfVec(I, 1, 3), HalfVec(J, 3, 1)>>,
      <<Reverse(AUp(N)), HalfVec(I, 2, 1), HalfVec(J, 0, 2)>> }

\* an unconstrained factorization may also return negative factors
SignedComponents(N, I, J) ==
    NonNegComponents(N, I, J) \cup
    { <<NegV(AUp(N)), HalfVec(I, -1, -3), HalfVec(J, 3, 1)>>,
      <<AUp(N), HalfVec(I, -3, 1), HalfVec(J, 3, 1)>> }

\* every combination of signs of the three factors of one component
AllSignComponents(N, I, J) ==
    { <<a, b, c>> : a \in {AUp(N), NegV(AUp(N)), AZeroSum(N)},
                    b \in {HalfVec(I, 1, 3), HalfVec(I, -1, -3), HalfVec(I, -3, 1),
                           HalfVec(I, 3, -1), HalfVec(I, -2, 2)},
                    c \in {HalfVec(J, 3, 1), HalfVec(J, -3, -1), HalfVec(J, 1, -3),
                           HalfVec(J, -1, 3), HalfVec(J, 2, -2)} }

\* the second component of a factorization of rank two
SecondComponents(N, I, J, non_negativity) ==
    { <<Reverse(AUp(N)), HalfVec(I, 2, 1), HalfVec(J, 0, 2)>> } \cup
    IF non_negativity THEN {}
    ELSE { <<AUp(N), HalfVec(I, -3, 1), HalfVec(J, 3, 1)>> }

Ranks == {1, 2}

\* the CP tensors (weights, [a, b, c]) the routine may return for a stack of
\* shape (N, I, J): weights are all ones
FactorCandidates(allsigns, N, I, J, rank, non_negativity) ==
    LET first == IF non_negativity THEN NonNegComponents(N, I, J)
                 ELSE IF allsigns THEN AllSignComponents(N, I, J)
                 ELSE SignedComponents(N, I, J)
        rest == SecondComponents(N, I, J, non_negativity)
        comps == IF rank = 1 THEN { <<k>> : k \in first }
                 ELSE { <<k1, k2>> : k1 \in first, k2 \in rest }
    IN  { <<[r \in 1..rank |-> One],
            <<FromCols([r \in 1..rank |-> k[r][1]], N),
              FromCols([r \in 1..rank |-> k[r][2]], I),
              FromCols([r \in 1..rank |-> k[r][3]], J)>>>> : k \in comps }

(* ------------------------------------------------------------------ *)
(* State.                                                              *)
(* ------------------------------------------------------------------ *)
VARIABLES
    ds,      \* the EEMDataset object: eem_stack, ex_range, em_range, ref, index
    model,   \* the PARAFAC object: its parameters and its attributes
    ret,     \* what the last call returned
    exc,     \* the exception the last call raised, "none" if it returned
    raw,     \* what the last establish computed from: the CP tensors the factorization
             \* routine returned and the weights of its tf_normalization call
    stdout,  \* what establish last printed
    last,    \* the last call: its name and its copy flag
    nops,    \* number of calls made so far
    call,    \* the last call of a function or of SplitValidation.run: its name, its
             \* arguments and the values it computed
    split    \* the datasets the caller holds: objs[1] is the dataset that was
             \* constructed first and the rest what its last splitting returned;
             \* ds is objs[focus], the one the caller calls methods on; shares
             \* holds the pairs of them whose eem_stack is the same array
             \* object or a view of it; args are the arguments of the last
             \* splitting call

vars == <<ds, model, ret, exc, raw, stdout, last, nops, split, call>>

MaxOps == 3

InitSamples == 2

None == <<>>

\* a numpy array, and the Python tuple (array, other_outputs) that
\* process_eem_stack returns
Ndarray(arr) == [kind |-> "ndarray", arr |-> arr, others |-> <<>>]

PyTuple(out) == [kind |-> "tuple", arr |-> out[1], others |-> out[2]]

NoReturn == [kind |-> "none", arr |-> <<>>, others |-> <<>>]

ExRange0 == <<250, 300>>

EmRange0 == <<260, 280, 300, 320>>

OnesWeights(rank) == [r \in 1..rank |-> One]

\* the initial stacks are exactly trilinear, of rank one and of rank two
InitStacks ==
    LET N == InitSamples
        I == Len(ExRange0)
        J == Len(EmRange0)
        k1 == <<AUp(N), HalfVec(I, 1, 3), HalfVec(J, 3, 1)>>
        k3 == <<Reverse(AUp(N)), HalfVec(I, 2, 1), HalfVec(J, 0, 2)>>
    IN  { cp_to_tensor(<<OnesWeights(1),
                         <<FromCols(<<k1[1]>>, N), FromCols(<<k1[2]>>, I), FromCols(<<k1[3]>>, J)>>>>),
          cp_to_tensor(<<OnesWeights(2),
                         <<FromCols(<<k1[1], k3[1]>>, N), FromCols(<<k1[2], k3[2]>>, I),
                           FromCols(<<k1[3], k3[3]>>, J)>>>>) }

\* EEMDataset.__init__
EEMDataset(eem_stack, ex_range, em_range, ref, index) ==
    [eem_stack |-> eem_stack, ex_range |-> ex_range, em_range |-> em_range,
     ref |-> ref, index |-> index]

Attributes ==
    {"score", "ex_loadings", "em_loadings", "fmax", "component_stack", "cptensors",
     "eem_stack_train", "eem_stack_reconstructed", "ex_range", "em_range"}

Configs ==
    [rank : Ranks, non_negativity : BOOLEAN, tf_normalization : BOOLEAN,
     loadings_normalization : {"sd", "maximum", "none"}, sort_em : BOOLEAN]

\* PARAFAC.__init__: the parameters are kept, every attribute is None.
\* Two history fields are added: origin[x] is the number of the call that
\* last assigned attribute x (0: the constructor), and prev_train is the
\* training stack of the establish before the last successful one.
PARAFAC(cfg) ==
    [cfg |-> cfg,
     score |-> None, ex_loadings |-> None, em_loadings |-> None, fmax |-> None,
     component_stack |-> None, cptensors |-> None, eem_stack_train |-> None,
     eem_stack_reconstructed |-> None, ex_range |-> None, em_range |-> None,
     origin |-> [x \in Attributes |-> 0], prev_train |-> None]

InitDatasets ==
    { EEMDataset(Ndarray(st), ExRange0, EmRange0,
                 [n \in 1..InitSamples |-> R(n)],
                 [n \in 1..InitSamples |-> <<"sample", n>>]) : st \in InitStacks }

\* PARAFAC(rank) with the defaults of the constructor's signature
DefaultConfig ==
    [rank |-> 1, non_negativity |-> TRUE, tf_normalization |-> TRUE,
     loadings_normalization |-> "sd", sort_em |-> TRUE]

\* no function has been called yet
NoCall == [fn |-> "none", args |-> <<>>, out |-> <<>>]

\* one dataset, never split
NoSplit == [objs |-> <<None>>, focus |-> 1, shares |-> {}, args |-> <<>>]

\* self.eem_stack = <new array>: the dataset the caller works on no longer
\* shares its stack with any other
rebind(s) == [s EXCEPT !.shares = {p \in @ : s.focus \notin p}]

InitWith(configs) ==
    /\ split = NoSplit
    /\ call = NoCall
    /\ ds \in InitDatasets
    /\ model \in { PARAFAC(cfg) : cfg \in configs }
    /\ ret = NoReturn
    /\ exc = "none"
    /\ raw = None
    /\ stdout = ""
    /\ last = [op |-> "init", copy |-> TRUE, arpack |-> FALSE]
    /\ nops = 0

Init == InitWith(Configs)

\* the dataset alone: one model, never established
InitDataset == InitWith({DefaultConfig})

\* the end of every call
Finish(op, copy, d, m, r, e) ==
    /\ ds' = d
    /\ model' = m
    /\ ret' = r
    /\ exc' = e
    /\ last' = [op |-> op, copy |-> copy, arpack |-> FALSE]
    /\ nops' = nops + 1
    /\ split' = IF ~copy /\ e = "none" THEN rebind(split) ELSE split
    /\ UNCHANGED <<raw, stdout, call>>

IsArray(d) == d.eem_stack.kind = "ndarray"

\* range(eem_stack.shape[0]), the loop of process_eem_stack
Samples(d) == 1..Len(d.eem_stack.arr)

\* a store that ignores the copy flag
store_regardless(copy, d, value) == [d EXCEPT !.eem_stack = value]

\* "if not copy: self.eem_stack = <result>", the tail of every processing method
store(copy, d, value) == IF ~copy THEN [d EXCEPT !.eem_stack = value] ELSE d

\* A processing method whose process_eem_stack result is unpacked
\* ("stack, _ = process_eem_stack(...)"): the array is stored and returned.
\* Every method reads self.eem_stack.shape first: AttributeError on a tuple.
UnpackedMethod(op, copy, f_output, tupled) ==
    IF ~IsArray(ds) THEN Finish(op, copy, ds, model, NoReturn, "AttributeError")
    ELSE LET out == process_eem_stack(f_output, tupled)
         IN  Finish(op, copy, store(copy, ds, Ndarray(out[1])), model, Ndarray(out[1]), "none")

\* A processing method that keeps the whole process_eem_stack result
\* ("stack = process_eem_stack(...)"): the pair is stored and returned.
WholeMethod(op, copy, f_output, tupled) ==
    IF ~IsArray(ds) THEN Finish(op, copy, ds, model, NoReturn, "AttributeError")
    ELSE LET out == process_eem_stack(f_output, tupled)
         IN  Finish(op, copy, store(copy, ds, PyTuple(out)), model, PyTuple(out), "none")

(* ------------------------------------------------------------------ *)
(* EEMDataset processing methods (lines 585-679).                      *)
(* ------------------------------------------------------------------ *)
\* the (ex_min, ex_max, em_min, em_max) windows a caller passes: the lower
\* half of the emission axis, and the highest excitation wavelength alone
Windows(d) ==
    LET ex == d.ex_range
        em == d.em_range
    IN  { <<ex[1], ex[Len(ex)], em[1], em[(Len(em) + 1) \div 2]>>,
          <<ex[Len(ex)], ex[Len(ex)], em[1], em[Len(em)]>> }

\* the first and the last node of an axis
EndPoints(axis) == IF Len(axis) = 1 THEN axis ELSE <<axis[1], axis[Len(axis)]>>

\* every other node of an axis
SubGrid(axis) == [k \in 1..((Len(axis) + 1) \div 2) |-> axis[2 * k - 1]]

\* eem_threshold_masking is called without its required argument fill
threshold_masking(copy) ==
    /\ nops < MaxOps
    /\ Finish("threshold_masking", copy, ds, model, NoReturn,
              IF IsArray(ds) THEN "TypeError" ELSE "AttributeError")

gaussian_filter(copy) ==
    /\ nops < MaxOps
    /\ \E wide \in BOOLEAN :
          WholeMethod("gaussian_filter", copy,
                      [n \in Samples(ds) |-> eem_gaussian_filter(ds.eem_stack.arr[n], wide)],
                      FALSE)

region_masking(copy) ==
    /\ nops < MaxOps
    /\ \E w \in Windows(ds), fill_value \in {"nan", "zero"} :
          UnpackedMethod("region_masking", copy,
                         [n \in Samples(ds) |->
                             eem_region_masking(ds.eem_stack.arr[n], ds.ex_range, ds.em_range,
                                                w[3], w[4], w[1], w[2], fill_value)],
                         TRUE)

cutting(copy) ==
    /\ nops < MaxOps
    /\ \E w \in Windows(ds) :
          IF ~IsArray(ds) THEN Finish("cutting", copy, ds, model, NoReturn, "AttributeError")
          ELSE LET out == process_eem_stack(
                              [n \in Samples(ds) |->
                                  eem_cutting(ds.eem_stack.arr[n], ds.ex_range, ds.em_range,
                                              w[3], w[4], w[1], w[2])],
                              TRUE)
                   new_ranges == out[2]
                   d == IF ~copy
                        THEN [ds EXCEPT !.eem_stack = Ndarray(out[1]),
                                        !.ex_range = new_ranges[1][1],
                                        !.em_range = new_ranges[1][2]]
                        ELSE ds
               IN  Finish("cutting", copy, d, model,
                          [kind |-> "ndarray", arr |-> out[1],
                           others |-> <<new_ranges[1][1], new_ranges[1][2]>>], "none")

nan_imputing(copy) ==
    /\ nops < MaxOps
    /\ \E fill \in {Zero, One} :
          WholeMethod("nan_imputing", copy,
                      [n \in Samples(ds) |-> eem_nan_imputing(ds.eem_stack.arr[n], fill)],
                      FALSE)

raman_normalization(copy) ==
    /\ nops < MaxOps
    /\ \E manual_rsu \in {1, 2} :
          WholeMethod("raman_normalization", copy,
                      [n \in Samples(ds) |->
                          eem_raman_normalization(ds.eem_stack.arr[n], manual_rsu)],
                      TRUE)

tf_normalization(copy) ==
    /\ nops < MaxOps
    /\ IF ~IsArray(ds)
       THEN Finish("tf_normalization", copy, ds, model, NoReturn, "AttributeError")
       ELSE LET out == eems_tf_normalization(ds.eem_stack.arr)
            IN  Finish("tf_normalization", copy, store(copy, ds, Ndarray(out[1])), model,
                       [kind |-> "ndarray", arr |-> out[1], others |-> out[2]], "none")

RamanTolerance == 5

RayleighTolerance == 15

raman_masking(copy) ==
    /\ nops < MaxOps
    /\ \E ma \in {<<"linear", "grid">>, <<"nan", "grid">>, <<"linear", "em">>, <<"linear", "ex">>},
          single \in SingleNode :
          IF IsArray(ds) /\ tol_emidx_raises(ds.em_range)
          THEN Finish("raman_masking", copy, ds, model, NoReturn, "IndexError")
          ELSE IF IsArray(ds) /\ eem_raman_masking_raises(ma[1], ma[2])
          THEN Finish("raman_masking", copy, ds, model, NoReturn, "TypeError")
          ELSE UnpackedMethod("raman_masking", copy,
                              [n \in Samples(ds) |->
                                  eem_raman_masking(ds.eem_stack.arr[n], ds.ex_range, ds.em_range,
                                                    RamanTolerance, ma[1], ma[2], single)],
                              TRUE)

rayleigh_masking(copy) ==
    /\ nops < MaxOps
    /\ \E p \in { <<"grid", "grid", "zero", "linear">>, <<"grid", "grid", "zero", "nan">>,
                  <<"grid", "em", "zero", "linear">>, <<"ex", "grid", "linear", "zero">> },
          single \in SingleNode :
          IF IsArray(ds) /\ tol_emidx_raises(ds.em_range)
          THEN Finish("rayleigh_masking", copy, ds, model, NoReturn, "IndexError")
          ELSE IF IsArray(ds) /\ eem_rayleigh_masking_raises(p[1], p[2], p[3], p[4])
          THEN Finish("rayleigh_masking", copy, ds, model, NoReturn, "TypeError")
          ELSE UnpackedMethod("rayleigh_masking", copy,
                              [n \in Samples(ds) |->
                                  eem_rayleigh_masking(ds.eem_stack.arr[n], ds.ex_range, ds.em_range,
                                                       RayleighTolerance, RayleighTolerance,
                                                       p[1], p[2], p[3], p[4], single)],
                              TRUE)

ife_correction(copy) ==
    /\ nops < MaxOps
    /\ \E e \in {0, 1} :
          WholeMethod("ife_correction", copy,
                      [n \in Samples(ds) |->
                          eem_ife_correction(ds.eem_stack.arr[n],
                              [i \in 1..NRows(ds.eem_stack.arr[n]) |->
                                  [j \in 1..NCols(ds.eem_stack.arr[n]) |-> e]])],
                      FALSE)

interpolation(copy) ==
    /\ nops < MaxOps
    /\ \E ex_range_new \in {ds.ex_range, EndPoints(ds.em_range)},
          em_range_new \in {ds.em_range, SubGrid(ds.em_range), ds.ex_range} :
          IF ~IsArray(ds)
          THEN Finish("interpolation", copy, ds, model, NoReturn, "AttributeError")
          ELSE IF eem_interpolation_raises(ds.ex_range, ds.em_range, ex_range_new, em_range_new)
          THEN Finish("interpolation", copy, ds, model, NoReturn, "ValueError")
          ELSE LET out == process_eem_stack(
                              [n \in Samples(ds) |->
                                  eem_interpolation(ds.eem_stack.arr[n], ds.ex_range, ds.em_range,
                                                    ex_range_new, em_range_new)],
                              FALSE)
                   d == IF ~copy
                        THEN [ds EXCEPT !.eem_stack = PyTuple(out),
                                        !.ex_range = ex_range_new,
                                        !.em_range = em_range_new]
                        ELSE ds
               IN  Finish("interpolation", copy, d, model,
                          [kind |-> "tuple", arr |-> out[1],
                           others |-> <<ex_range_new, em_range_new>>], "none")

ProcessingMethods ==
    {"threshold_masking", "gaussian_filter", "region_masking", "cutting", "nan_imputing",
     "raman_normalization", "tf_normalization", "raman_masking", "rayleigh_masking",
     "ife_correction", "interpolation"}

Processing ==
    \E copy \in BOOLEAN :
        \/ threshold_masking(copy)
        \/ gaussian_filter(copy)
        \/ region_masking(copy)
        \/ cutting(copy)
        \/ nan_imputing(copy)
        \/ raman_normalization(copy)
        \/ tf_normalization(copy)
        \/ raman_masking(copy)
        \/ rayleigh_masking(copy)
        \/ ife_correction(copy)
        \/ interpolation(copy)

SpecDataset == InitDataset /\ [][Processing]_vars

(* ------------------------------------------------------------------ *)
(* PARAFAC.establish and PARAFAC.fit (lines 812-949).                  *)
(* ------------------------------------------------------------------ *)
Self == [kind |-> "self", arr |-> <<>>, others |-> <<>>]

ArpackMessage == "PARAFAC failed possibly due to the presence of patches of nan values."

\* the end of a call of establish
FinishEstablish(d, m, r, e, inputs, printed, arpack) ==
    /\ ds' = d
    /\ model' = m
    /\ ret' = r
    /\ exc' = e
    /\ raw' = inputs
    /\ stdout' = printed
    /\ last' = [op |-> "establish", copy |-> TRUE, arpack |-> arpack]
    /\ nops' = nops + 1
    /\ split' = IF model.cfg.tf_normalization /\ IsArray(ds) THEN rebind(split) ELSE split
    /\ UNCHANGED call

\* an establish that forgets to refresh fmax
assign_derived_but_fmax(m, derived, tag) ==
    [m EXCEPT !.score = derived.score,
              !.ex_loadings = derived.ex_loadings,
              !.em_loadings = derived.em_loadings,
              !.component_stack = derived.component_stack,
              !.cptensors = derived.cptensors,
              !.eem_stack_train = derived.eem_stack_train,
              !.ex_range = derived.ex_range,
              !.em_range = derived.em_range,
              !.eem_stack_reconstructed = derived.eem_stack_reconstructed,
              !.origin = [x \in Attributes |-> IF x = "fmax" THEN m.origin[x] ELSE tag],
              !.prev_train = m.eem_stack_train]

\* lines 914-923: self.<attribute> = <derived value>, ten assignments; tag
\* is the number of the establish call that makes them
assign_derived(m, derived, tag) ==
    [m EXCEPT !.score = derived.score,
              !.ex_loadings = derived.ex_loadings,
              !.em_loadings = derived.em_loadings,
              !.fmax = derived.fmax,
              !.component_stack = derived.component_stack,
              !.cptensors = derived.cptensors,
              !.eem_stack_train = derived.eem_stack_train,
              !.ex_range = derived.ex_range,
              !.em_range = derived.em_range,
              !.eem_stack_reconstructed = derived.eem_stack_reconstructed,
              !.origin = [x \in Attributes |-> tag],
              !.prev_train = m.eem_stack_train]

\* lines 884-885: "em_peaks = [c[1] for c in em_loadings.idxmax()]" indexes
\* each peak wavelength, a numpy scalar: IndexError whenever sort_em is set
sort_em_raises(cfg) == cfg.sort_em

\* establish from the factorization on: d is the dataset as the
\* factorization sees it, tf_weights the weights of line 829 (None without)
establish_factorize(allsigns, d, tf_weights) ==
    LET cfg == model.cfg
        st == d.eem_stack.arr
    IN  \/ \* the routine raises ArpackError: the handler prints, and line 847
           \* then reads cptensors, which was never bound
           FinishEstablish(d, model, NoReturn, "UnboundLocalError", None, ArpackMessage, TRUE)
        \/ \E cptensors \in FactorCandidates(allsigns, Len(st), NRows(st[1]), NCols(st[1]),
                                             cfg.rank, cfg.non_negativity) :
              LET inputs == [cptensors |-> cptensors, tf_weights |-> tf_weights]
              IN  IF sort_em_raises(cfg)
                  THEN FinishEstablish(d, model, NoReturn, "IndexError", inputs, "", FALSE)
                  ELSE FinishEstablish(d,
                                       assign_derived(model,
                                                      establish_derive(cptensors, tf_weights, cfg, d),
                                                      nops + 1),
                                       Self, "none", inputs, "", FALSE)

\* line 829: eem_dataset.tf_normalization(copy=False) stores the normalized
\* stack on the dataset and returns (stack, weights)
tf_normalized(d, out) == <<store(FALSE, d, Ndarray(out[1])), out[2]>>

\* lines 828-829: the dataset the factorization sees and the weights, None
\* without tf_normalization
establish_inputs(d, cfg) ==
    IF cfg.tf_normalization THEN tf_normalized(d, eems_tf_normalization(d.eem_stack.arr))
    ELSE <<d, None>>

establish_from(allsigns, inputs) == establish_factorize(allsigns, inputs[1], inputs[2])

establish(allsigns) ==
    /\ nops < MaxOps
    /\ IF ~IsArray(ds)
       THEN IF model.cfg.tf_normalization
            THEN \* tf_normalization reads self.eem_stack.shape
                 FinishEstablish(ds, model, NoReturn, "AttributeError", None, "", FALSE)
            ELSE \* np.isnan of the pair (array, list): ValueError or TypeError,
                 \* by the numpy version
                 \E e \in {"ValueError", "TypeError"} :
                     FinishEstablish(ds, model, NoReturn, e, None, "", FALSE)
       ELSE establish_from(allsigns, establish_inputs(ds, model.cfg))

\* a fit that keeps its result on the model
fit_model_keeping(m, result) == [m EXCEPT !.score = result[1]]

\* fit never assigns to self
fit_model(m, result) == m

\* line 949: return score_sample, fmax_sample, eem_stack_pred
fit_return(out) ==
    <<[kind |-> "tuple", arr |-> out[3], others |-> <<out[1], out[2]>>], "none">>

\* what fit returns or raises: (value, exception)
fit_result(d, m) ==
    IF ~IsArray(d) \/ m.component_stack = None THEN <<NoReturn, "AttributeError">>
    ELSE IF ~fit_shapes_agree(d.eem_stack.arr, m.component_stack)
    THEN <<NoReturn, "AssertionError">>
    ELSE fit_return(eems_fit_components(d.eem_stack.arr, m.component_stack))

FinishFit(result) == Finish("fit", TRUE, ds, fit_model(model, result), result[1], result[2])

fit ==
    /\ nops < MaxOps
    /\ FinishFit(fit_result(ds, model))

\* what a caller does to the dataset between two calls on the model
Prepare ==
    \/ cutting(FALSE)
    \/ gaussian_filter(FALSE)

Next ==
    \/ Prepare
    \/ establish(FALSE)
    \/ fit

Spec == Init /\ [][Next]_vars

\* the unconstrained factorization returning every combination of signs
InitSign == InitWith({cfg \in Configs : ~cfg.non_negativity /\ ~cfg.sort_em})

MaxSignOps == 1

NextSign == nops < MaxSignOps /\ establish(TRUE)

SpecSign == InitSign /\ [][NextSign]_vars

(* ------------------------------------------------------------------ *)
(* EEMDataset.splitting (lines 702-731) and the sub-datasets it makes. *)
(* ------------------------------------------------------------------ *)
SplitSamples == 3

MaxSplit == 4

\* np.array_split(idx, n): n sections in order, the first Len(idx) % n of
\* them one entry longer than the rest
array_split(idx, n) ==
    Vec([k \in 1..n |->
            SubSeq(idx, (k - 1) * (Len(idx) \div n) + Min2(k - 1, Len(idx) % n) + 1,
                        k * (Len(idx) \div n) + Min2(k, Len(idx) % n))])

\* lines 727-729: the sub-dataset of one section; the axes are the parent's
sub_dataset(d, section) ==
    EEMDataset(Ndarray(Vec([k \in 1..Len(section) |-> d.eem_stack.arr[section[k]]])),
               d.ex_range, d.em_range,
               Vec([k \in 1..Len(section) |-> d.ref[section[k]]]),
               Vec([k \in 1..Len(section) |-> d.index[section[k]]]))

\* a splitting that hands out slices of the parent's stack instead
splitting_views(n_split) == {{1, k + 1} : k \in 1..n_split}

\* np.array([...]) of line 727 allocates: no sub-dataset shares its stack
\* with the parent or with a sibling
splitting_shares(n_split) == {}

\* the orders idx_eems may have when the sections are cut: random.shuffle
\* leaves any permutation, 'sequential' the order of the stack
split_orders(n, rule) ==
    IF rule = "random" THEN Permutations(1..n) ELSE {[i \in 1..n |-> i]}

DatasetList(model_list) == [kind |-> "list", arr |-> <<>>, others |-> model_list]

\* the end of a call of splitting
FinishSplitting(model_list, e, args, shares) ==
    /\ ret' = IF e = "none" THEN DatasetList(model_list) ELSE NoReturn
    /\ exc' = e
    /\ split' = IF e = "none"
                THEN [objs |-> <<None>> \o model_list, focus |-> 1, shares |-> shares,
                      args |-> args]
                ELSE [split EXCEPT !.args = args]
    /\ last' = [op |-> "splitting", copy |-> TRUE, arpack |-> FALSE]
    /\ nops' = nops + 1
    /\ UNCHANGED <<ds, model, raw, stdout, call>>

\* what splitting raises before it returns, "none" if nothing: line 719
\* reads eem_stack.shape, np.array_split refuses n_split = 0, an unknown
\* rule leaves idx_splits unbound, and lines 728-729 subscript ref and
\* index, which are None unless the caller passed them
splitting_raises(d, n_split, rule) ==
    IF ~IsArray(d) THEN "AttributeError"
    ELSE IF rule \notin {"random", "sequential"} THEN "UnboundLocalError"
    ELSE IF n_split = 0 THEN "ValueError"
    ELSE IF Len(d.eem_stack.arr) > 0 /\ (d.ref = None \/ d.index = None) THEN "TypeError"
    ELSE "none"

splitting(n_split, rule) ==
    /\ nops < MaxOps
    /\ split.focus = 1
    /\ IF splitting_raises(ds, n_split, rule) # "none"
       THEN FinishSplitting(<<>>, splitting_raises(ds, n_split, rule), <<n_split, rule>>, {})
       ELSE \E idx_eems \in split_orders(Len(ds.eem_stack.arr), rule) :
               FinishSplitting(Vec([k \in 1..n_split |->
                                       sub_dataset(ds, array_split(idx_eems, n_split)[k])]),
                               "none", <<n_split, rule>>, splitting_shares(n_split))

\* the caller turns to another of the datasets it holds
select(j) ==
    /\ j \in 1..Len(split.objs)
    /\ j # split.focus
    /\ ds' = split.objs[j]
    /\ split' = [split EXCEPT !.objs = [@ EXCEPT ![split.focus] = ds, ![j] = None],
                              !.focus = j]
    /\ UNCHANGED <<model, ret, exc, raw, stdout, last, nops, call>>

\* the dataset the caller holds at position i
Object(i) == IF i = split.focus THEN ds ELSE split.objs[i]

\* datasets of SplitSamples samples, with and without the optional
\* reference vector and identifier list
SplitDatasets ==
    LET N == SplitSamples
        I == Len(ExRange0)
        J == Len(EmRange0)
        stack == cp_to_tensor(<<OnesWeights(1),
                                <<FromCols(<<AUp(N)>>, N), FromCols(<<HalfVec(I, 1, 3)>>, I),
                                  FromCols(<<HalfVec(J, 3, 1)>>, J)>>>>)
    IN  { EEMDataset(Ndarray(stack), ExRange0, EmRange0, ref, index) :
            ref \in {None, [n \in 1..N |-> R(n)]},
            index \in {None, [n \in 1..N |-> <<"sample", n>>]} }

\* the caller processes in place a dataset that holds at least one sample
PrepareSample ==
    /\ Len(ds.eem_stack.arr) > 0
    /\ Prepare

InitSplit ==
    /\ split = NoSplit
    /\ call = NoCall
    /\ ds \in SplitDatasets
    /\ model = PARAFAC(DefaultConfig)
    /\ ret = NoReturn
    /\ exc = "none"
    /\ raw = None
    /\ stdout = ""
    /\ last = [op |-> "init", copy |-> TRUE, arpack |-> FALSE]
    /\ nops = 0

NextSplit ==
    \/ \E n_split \in 0..MaxSplit, rule \in {"random", "sequential", "shuffle"} :
          splitting(n_split, rule)
    \/ \E j \in 1..(MaxSplit + 1) : select(j)
    \/ PrepareSample

SpecSplit == InitSplit /\ [][NextSplit]_vars

(* ------------------------------------------------------------------ *)
(* SplitValidation (lines 1364-1460).                                  *)
(* ------------------------------------------------------------------ *)
MaxSubsets == 5

\* itertools.combinations(seq, r): the r-tuples of seq in lexicographic
\* order of position
RECURSIVE combinations(_, _)
combinations(seq, r) ==
    IF r = 0 THEN << <<>> >>
    ELSE IF Len(seq) < r THEN <<>>
    ELSE [k \in 1..Len(combinations(Tail(seq), r - 1)) |->
             <<Head(seq)>> \o combinations(Tail(seq), r - 1)[k]]
         \o combinations(Tail(seq), r)

RECURSIVE ConcatAll(_)
ConcatAll(seqs) == IF seqs = <<>> THEN <<>> ELSE Head(seqs) \o ConcatAll(Tail(seqs))

\* range(n_split) and string.ascii_uppercase[0:n_split]; a string is the
\* sequence of its characters
PyRange(n) == [k \in 1..n |-> k - 1]

ascii_uppercase ==
    <<"A", "B", "C", "D", "E", "F", "G", "H", "I", "J", "K", "L", "M",
      "N", "O", "P", "Q", "R", "S", "T", "U", "V", "W", "X", "Y", "Z">>

\* an argument that is either a keyword string or an int
Keyword(word) == <<word, 0>>

PyInt(n) == <<"int", n>>

\* lines 1405-1408: int(cs * 2) and int(cs); 'half' makes cs the float
\* n_split / 2
combination_sizes(n_split, combination_size) ==
    IF combination_size = Keyword("half") THEN <<n_split, n_split \div 2>>
    ELSE <<2 * combination_size[2], combination_size[2]>>

\* lines 1413-1417: the k-th tuple from the front with the k-th from the back
front_back(elements) ==
    [k \in 1..(Len(elements) \div 2) |-> <<elements[k], elements[Len(elements) + 1 - k]>>]

\* lines 1411-1417 for one of the two zipped sequences: items is
\* range(n_split) for combos and the letters for combo_labels
enumerate_pairs(items, sizes) ==
    ConcatAll([t \in 1..Len(combinations(items, sizes[1])) |->
                  front_back(combinations(combinations(items, sizes[1])[t], sizes[2]))])

\* lines 1418-1424
number_of_tests(n_test, combos) ==
    IF n_test = Keyword("max") THEN Len(combos)
    ELSE IF n_test[2] > Len(combos) THEN Len(combos) ELSE n_test[2]

\* what lines 1405-1424 compute, and the four attributes of the
\* SplitValidation object, which only lines 1456-1459 assign
run_locals(n_split, combination_size, n_test) ==
    [combos |-> enumerate_pairs(PyRange(n_split),
                                combination_sizes(n_split, combination_size)),
     combo_labels |-> enumerate_pairs(SubSeq(ascii_uppercase, 1, n_split),
                                      combination_sizes(n_split, combination_size)),
     n_t |-> number_of_tests(n_test,
                             enumerate_pairs(PyRange(n_split),
                                             combination_sizes(n_split, combination_size))),
     eem_subsets |-> None, subset_specific_models |-> None,
     similarities_ex |-> None, similarities_em |-> None]

NoLocals ==
    [combos |-> <<>>, combo_labels |-> <<>>, n_t |-> 0,
     eem_subsets |-> None, subset_specific_models |-> None,
     similarities_ex |-> None, similarities_em |-> None]

\* the end of a call of run; run has only ever ended by raising
FinishRun(d, e, printed, args, out) ==
    /\ ds' = d
    /\ ret' = NoReturn
    /\ exc' = e
    /\ stdout' = printed
    /\ call' = [fn |-> "run", args |-> args, out |-> out]
    /\ last' = [op |-> "run", copy |-> FALSE, arpack |-> printed # ""]
    /\ nops' = nops + 1
    /\ split' = IF d # ds THEN rebind(split) ELSE split
    /\ UNCHANGED <<model, raw>>

\* lines 1426-1428: model_complete = PARAFAC(rank, non_negativity,
\* tf_normalization), with the default sort_em=True, is established on the
\* caller's dataset: tf_normalization(copy=False) first, then either the
\* factorization raises ArpackError and line 847 UnboundLocalError, or it
\* returns and line 885 raises IndexError
run_establish(d, args, out) ==
    \/ FinishRun(d, "UnboundLocalError", ArpackMessage, args, out)
    \/ /\ sort_em_raises(DefaultConfig)
       /\ FinishRun(d, "IndexError", "", args, out)

run(n_split, combination_size, n_test, rule, tf) ==
    /\ nops < MaxOps
    /\ IF splitting_raises(ds, n_split, rule) # "none"
       THEN FinishRun(ds, splitting_raises(ds, n_split, rule), "",
                      [n_split |-> n_split, combination_size |-> combination_size,
                       n_test |-> n_test, rule |-> rule, tf_normalization |-> tf],
                      NoLocals)
       ELSE run_establish(establish_inputs(ds, [DefaultConfig EXCEPT !.tf_normalization = tf])[1],
                          [n_split |-> n_split, combination_size |-> combination_size,
                           n_test |-> n_test, rule |-> rule, tf_normalization |-> tf],
                          run_locals(n_split, combination_size, n_test))

MaxRuns == 1

NextValidation ==
    /\ nops < MaxRuns
    /\ \E n_split \in 1..MaxSubsets, combination_size \in {Keyword("half"), PyInt(1), PyInt(2)},
          n_test \in {Keyword("max"), PyInt(1), PyInt(2)},
          rule \in {"random", "sequential"}, tf \in BOOLEAN :
           run(n_split, combination_size, n_test, rule, tf)

SpecValidation == InitSplit /\ [][NextValidation]_vars

(* ------------------------------------------------------------------ *)
(* combine_eem_datasets (lines 734-752).                               *)
(* ------------------------------------------------------------------ *)
\* eem_stack.shape[1:]: empty for the one-dimensional array of no samples
TrailingShape(d) ==
    IF Len(d.eem_stack.arr) = 0 THEN <<>>
    ELSE <<NRows(d.eem_stack.arr[1]), NCols(d.eem_stack.arr[1])>>

\* lines 744-747: Warning(...) only constructs an exception object, which is
\* dropped: nothing is raised and nothing is handed to warnings.warn, so the
\* caller is told nothing
mismatch_warnings(d, ex_range_0, em_range_0) == <<>>

\* what combine_eem_datasets raises, "none" if it returns: line 743 adds
\* d.index to a list, lines 748-749 concatenate the stacks and the
\* reference vectors along the sample axis
combine_raises(list_eem_datasets) ==
    IF list_eem_datasets = <<>> THEN "IndexError"
    ELSE IF \E k \in 1..Len(list_eem_datasets) : list_eem_datasets[k].index = None
         THEN "TypeError"
    ELSE IF \E k \in 1..Len(list_eem_datasets) :
                TrailingShape(list_eem_datasets[k]) # TrailingShape(list_eem_datasets[1])
         THEN "ValueError"
    ELSE IF \E k \in 1..Len(list_eem_datasets) : list_eem_datasets[k].ref = None
         THEN "ValueError"
    ELSE "none"

\* lines 748-751: the combined dataset, on the axes of the first
eem_dataset_combined(list_eem_datasets) ==
    EEMDataset(Ndarray(ConcatAll([k \in 1..Len(list_eem_datasets) |->
                                     list_eem_datasets[k].eem_stack.arr])),
               list_eem_datasets[1].ex_range, list_eem_datasets[1].em_range,
               ConcatAll([k \in 1..Len(list_eem_datasets) |-> list_eem_datasets[k].ref]),
               ConcatAll([k \in 1..Len(list_eem_datasets) |-> list_eem_datasets[k].index]))

combine_warnings(list_eem_datasets) ==
    ConcatAll([k \in 1..Len(list_eem_datasets) |->
                  mismatch_warnings(list_eem_datasets[k], list_eem_datasets[1].ex_range,
                                    list_eem_datasets[1].em_range)])

\* the end of a call of combine_eem_datasets
FinishCombine(list_eem_datasets, e) ==
    /\ ret' = IF e = "none"
              THEN [kind |-> "dataset", arr |-> <<>>,
                    others |-> eem_dataset_combined(list_eem_datasets)]
              ELSE NoReturn
    /\ exc' = e
    /\ call' = [fn |-> "combine_eem_datasets", args |-> list_eem_datasets,
                out |-> IF e \in {"none", "ValueError"}
                        THEN combine_warnings(list_eem_datasets) ELSE <<>>]
    /\ last' = [op |-> "combine_eem_datasets", copy |-> TRUE, arpack |-> FALSE]
    /\ nops' = nops + 1
    /\ UNCHANGED <<ds, model, raw, stdout, split>>

\* combine_eem_datasets([the datasets at the positions picked])
combine_eem_datasets(picked) ==
    /\ nops < MaxOps
    /\ FinishCombine([k \in 1..Len(picked) |-> Object(picked[k])],
                     combine_raises([k \in 1..Len(picked) |-> Object(picked[k])]))

\* the datasets a caller may construct and hand over: two samples on the
\* grid ExRange0 x EmRange0; the same on an emission axis moved by 5 nm; the
\* same cut to a smaller grid; without reference vector and identifiers;
\* with a reference vector one entry short
CombineDatasets ==
    LET N == InitSamples
        I == Len(ExRange0)
        J == Len(EmRange0)
        stack == cp_to_tensor(<<OnesWeights(1),
                                <<FromCols(<<AUp(N)>>, N), FromCols(<<HalfVec(I, 1, 3)>>, I),
                                  FromCols(<<HalfVec(J, 3, 1)>>, J)>>>>)
        ref == [n \in 1..N |-> R(n)]
        index == [n \in 1..N |-> <<"sample", n>>]
    IN  { EEMDataset(Ndarray(stack), ExRange0, EmRange0, ref, index),
          EEMDataset(Ndarray(stack), ExRange0, [j \in 1..J |-> EmRange0[j] + 5], ref, index),
          EEMDataset(Ndarray(Stack3([n \in 1..N |-> [i \in 1..I |-> SubSeq(stack[n][i], 1, 2)]])),
                     ExRange0, SubSeq(EmRange0, 1, 2), ref, index),
          EEMDataset(Ndarray(stack), ExRange0, EmRange0, None, None),
          EEMDataset(Ndarray(stack), ExRange0, EmRange0, SubSeq(ref, 1, N - 1), index) }

\* the selections handed to combine_eem_datasets: one, two or three of the
\* datasets held, in any order
Picks ==
    {p \in UNION {[1..n -> 1..3] : n \in 1..3} :
        \A a, b \in 1..Len(p) : a # b => p[a] # p[b]}

InitCombine ==
    /\ \E b, c \in CombineDatasets :
          split = [objs |-> <<None, b, c>>, focus |-> 1, shares |-> {}, args |-> <<>>]
    /\ call = NoCall
    /\ ds \in CombineDatasets
    /\ model = PARAFAC(DefaultConfig)
    /\ ret = NoReturn
    /\ exc = "none"
    /\ raw = None
    /\ stdout = ""
    /\ last = [op |-> "init", copy |-> TRUE, arpack |-> FALSE]
    /\ nops = 0

NextCombine ==
    \/ \E picked \in Picks : combine_eem_datasets(picked)
    \/ \E j \in 1..3 : select(j)

SpecCombine == InitCombine /\ [][NextCombine]_vars

(* ------------------------------------------------------------------ *)
(* Outlier detection (lines 368-417 and 681-700).                      *)
(* ------------------------------------------------------------------ *)
\* np.arange(start, stop, step) over integers
arange(start, stop, step) ==
    [k \in 1..((stop - start + step - 1) \div step) |-> start + (k - 1) * step]

GridSize == <<10, 10>>

\* eems_outlier_detection_if / _ocs never return: the samples are
\* interpolated to the grid of lines 382-383 through process_eem_stack,
\* whose result is the pair (array, other_outputs), and line 386 calls
\* .reshape on that pair; before that, eems_tf_normalization or
\* process_eem_stack read .shape of a stack that is itself a pair, and
\* eem_interpolation raises on points outside the old grid
eems_outlier_detection_raises(d, tf) ==
    IF ~IsArray(d) THEN "AttributeError"
    ELSE IF /\ Len(d.eem_stack.arr) > 0
            /\ eem_interpolation_raises(
                   d.ex_range, d.em_range,
                   arange(d.ex_range[1], d.ex_range[Len(d.ex_range)], GridSize[1]),
                   arange(d.em_range[1], d.em_range[Len(d.em_range)], GridSize[2]))
         THEN "ValueError"
    ELSE "AttributeError"

\* x[labels != -1]
Inliers(x, labels) == SelectSeq([n \in 1..Len(x) |-> <<x[n], labels[n]>>], LAMBDA p : p[2] # -1)

keep_inliers(x, labels) == [k \in 1..Len(Inliers(x, labels)) |-> Inliers(x, labels)[k][1]]

\* lines 685-688: the three assignments of the deletion branch
delete_outliers(d, labels) ==
    [d EXCEPT !.eem_stack = Ndarray(keep_inliers(d.eem_stack.arr, labels)),
              !.ref = keep_inliers(d.ref, labels),
              !.index = keep_inliers(d.index, labels)]

Labels(labels) == [kind |-> "labels", arr |-> labels, others |-> <<>>]

\* outlier_detection_if and outlier_detection_ocs differ in the classifier
\* only; copy in the record of the call is the negation of deletion
outlier_detection(method, tf, deletion) ==
    /\ nops < MaxOps
    /\ IF eems_outlier_detection_raises(ds, tf) # "none"
       THEN Finish(method, ~deletion, ds, model, NoReturn,
                   eems_outlier_detection_raises(ds, tf))
       ELSE \E labels \in [1..Len(ds.eem_stack.arr) -> {1, -1}] :
               IF ~deletion THEN Finish(method, TRUE, ds, model, Labels(labels), "none")
               ELSE IF ds.ref = None
               THEN Finish(method, FALSE,
                           [ds EXCEPT !.eem_stack = Ndarray(keep_inliers(@.arr, labels))],
                           model, NoReturn, "TypeError")
               ELSE IF ds.index = None
               THEN Finish(method, FALSE,
                           [ds EXCEPT !.eem_stack = Ndarray(keep_inliers(@.arr, labels)),
                                      !.ref = keep_inliers(@, labels)],
                           model, NoReturn, "TypeError")
               ELSE Finish(method, FALSE, delete_outliers(ds, labels), model,
                           Labels(labels), "none")

NextOutlier ==
    \/ \E method \in {"outlier_detection_if", "outlier_detection_ocs"},
          tf \in BOOLEAN, deletion \in BOOLEAN :
          outlier_detection(method, tf, deletion)
    \/ PrepareSample

SpecOutlier == InitSplit /\ [][NextOutlier]_vars

(* ------------------------------------------------------------------ *)
(* align_parafac_components, the definition of line 1191, which        *)
(* replaces the one of line 1124 when the module is loaded.            *)
(* Components are counted from 1 here, from 0 in the source.           *)
(* ------------------------------------------------------------------ *)
\* np.argmax: the first position of the maximum
argmax(v) == CHOOSE k \in 1..Len(v) : v[k] = MaxSeq(v) /\ \A l \in 1..(k - 1) : v[l] # MaxSeq(v)

\* the first maximum of the column whether or not it is in memory
max_index_claimed(column, memory) == argmax(column)

\* lines 1224-1227 for one reference component: column is m_sim[:, n_ref].
\* A candidate already in memory is zeroed in the copy and the maximum is
\* taken again; 0 stands for the loop that never ends, entered when the
\* maximum is a zero at a position that is in memory
RECURSIVE max_index(_, _)
max_index(column, memory) ==
    IF argmax(column) \notin memory THEN argmax(column)
    ELSE IF column[argmax(column)] = Zero THEN 0
    ELSE max_index([column EXCEPT ![argmax(column)] = Zero], memory)

\* lines 1220-1229: memory after the first n reference components; a
\* memory that ends in 0 stands for the loop that never ends
RECURSIVE matched_memory(_, _)
matched_memory(m_sim, n) ==
    IF n = 0 THEN <<>>
    ELSE IF 0 \in {matched_memory(m_sim, n - 1)[k] : k \in 1..(n - 1)}
    THEN matched_memory(m_sim, n - 1)
    ELSE Append(matched_memory(m_sim, n - 1),
                max_index(Col(m_sim, n),
                          {matched_memory(m_sim, n - 1)[k] : k \in 1..(n - 1)}))

\* list(set(range(n)) - set(memory)): small ints come out ascending
RECURSIVE non_ordered_idx(_, _)
non_ordered_idx(n, memory) ==
    IF n = 0 THEN <<>>
    ELSE non_ordered_idx(n - 1, memory) \o (IF n \in memory THEN <<>> ELSE <<n>>)

\* lines 1230-1231
component_order(memory, n_var) ==
    memory \o non_ordered_idx(n_var, {memory[k] : k \in 1..Len(memory)})

\* assigning a Series to a column aligns it on the index of the frame:
\* NaN at every row label the Series does not carry
aligned_series(index, series_index, series) ==
    [k \in 1..Len(index) |->
        IF \E j \in 1..Len(series_index) : series_index[j] = index[k]
        THEN series[CHOOSE j \in 1..Len(series_index) : series_index[j] = index[k]]
        ELSE NaN]

\* lines 1232-1235 with all labels present: column i of the copy of var
\* becomes column order[i] of source, aligned on the index of var
sorted_loadings(var, source, order) ==
    DataFrame(FromCols([i \in 1..Len(order) |->
                           aligned_series(var[2], source[2], Col(source[1], order[i]))],
                       Len(var[2])),
              var[2], var[3])

\* the number of components of a model's loadings, ex1.shape[1]
n_components(m) == Len(m.ex_loadings[3])

\* m_sim.to_numpy() or its transpose (lines 1215, 1219): rows are the
\* components of the model to be sorted
similarity_by_var(model1, model2, m_sim) ==
    IF n_components(model1) >= n_components(model2) THEN m_sim
    ELSE FromCols(m_sim, Len(m_sim[1]))

\* the end of a call of align_parafac_components on the model and model2
FinishAlign(m, e, model2, m_sim, order) ==
    /\ model' = m
    /\ exc' = e
    /\ ret' = IF e = "none" THEN Self ELSE NoReturn
    /\ call' = [fn |-> "align_parafac_components",
                args |-> [model1 |-> model, model2 |-> model2, m_sim |-> m_sim],
                out |-> order]
    /\ last' = [op |-> "align_parafac_components", copy |-> FALSE, arpack |-> FALSE]
    /\ nops' = nops + 1
    /\ UNCHANGED <<ds, raw, stdout, split>>

\* lines 1211-1242 once the order is known. With fewer components in
\* model1 than in model2 the loop of line 1233 reads from ex1 a column
\* of model2's numbering that ex1 does not have: KeyError. Otherwise the
\* excitation loadings are sorted, and em_var is ex1 (line 1214), so the
\* emission loadings become a frame on the excitation index.
align_store(model2, m_sim, order) ==
    IF 0 \in {order[k] : k \in 1..Len(order)}
    THEN FinishAlign(model, "never returns", model2, m_sim, order)
    ELSE IF n_components(model) < n_components(model2)
    THEN FinishAlign(model, "KeyError", model2, m_sim, order)
    ELSE FinishAlign([model EXCEPT
                         !.ex_loadings = sorted_loadings(model.ex_loadings, model.ex_loadings, order),
                         !.em_loadings = sorted_loadings(model.ex_loadings, model.em_loadings, order),
                         !.origin = [x \in Attributes |->
                                        IF x \in {"ex_loadings", "em_loadings"}
                                        THEN nops + 1 ELSE @[x]]],
                     "none", model2, m_sim, order)

\* align_parafac_components(models_dict, model_ref, model1, model2, m_sim)
\* with the model as model1; the first two arguments are never read
align_parafac_components(model2, m_sim) ==
    /\ nops < MaxOps
    /\ IF model.ex_loadings = None \/ model2.ex_loadings = None
       THEN FinishAlign(model, "AttributeError", model2, m_sim, <<>>)
       ELSE align_store(model2, m_sim,
                        component_order(
                            matched_memory(similarity_by_var(model, model2, m_sim),
                                           Min2(n_components(model), n_components(model2))),
                            Max2(n_components(model), n_components(model2))))

\* PARAFAC(rank, sort_em=False)
AlignConfig(rank) == [DefaultConfig EXCEPT !.rank = rank, !.sort_em = FALSE]

\* the models a second establish on the dataset may have produced, and a
\* model that was never established
established_model(cpt, cfg, inputs) ==
    assign_derived(PARAFAC(cfg), establish_derive(cpt, inputs[2], cfg, inputs[1]), 0)

ReferenceModels(d) ==
    {PARAFAC(DefaultConfig)} \cup
    UNION { { established_model(cpt, AlignConfig(rank), establish_inputs(d, AlignConfig(rank))) :
                cpt \in FactorCandidates(FALSE, Len(d.eem_stack.arr), NRows(d.eem_stack.arr[1]),
                                         NCols(d.eem_stack.arr[1]), rank, TRUE) } :
            rank \in Ranks }

SimValues == {Zero, One}

\* the similarity tables handed over: one row per component of model1, one
\* column per component of model2
SimMatrices(m1, m2) ==
    IF m1.ex_loadings = None \/ m2.ex_loadings = None THEN {<<<<One>>>>}
    ELSE [1..n_components(m1) -> [1..n_components(m2) -> SimValues]]

InitAlign == InitWith({AlignConfig(rank) : rank \in Ranks})

MaxAlignOps == 2

NextAlign ==
    \/ nops < MaxAlignOps /\ establish(FALSE)
    \/ \E model2 \in ReferenceModels(ds) :
          \E m_sim \in SimMatrices(model, model2) :
              nops < MaxAlignOps /\ align_parafac_components(model2, m_sim)

SpecAlign == InitAlign /\ [][NextAlign]_vars

(* ------------------------------------------------------------------ *)
(* loadings_similarity (lines 1076-1122), without dtw.                 *)
(* ------------------------------------------------------------------ *)
\* (wl_range.max() - wl_range.min()) / (wl_range.shape[0] - 1)
wl_interval(wl_range) ==
    Q(MaxSeq([k \in 1..Len(wl_range) |-> R(wl_range[k])])[1]
          - MinSeq([k \in 1..Len(wl_range) |-> R(wl_range[k])])[1],
      Len(wl_range) - 1)

\* interp1d keeps bounds_error: a new wavelength outside the old range
\* raises ValueError
out_of_bounds(wl_old, wl_new) ==
    \E k \in 1..Len(wl_new) : wl_new[k] < wl_old[1] \/ wl_new[k] > wl_old[Len(wl_old)]

\* lines 1100-1110: which table is resampled and onto which grid. 0: none
\* (equal intervals), 1: loadings1 onto wl_range2, 2: loadings2 onto
\* wl_range1; the table whose interval is larger is the one resampled
alignment(loadings1, loadings2) ==
    IF Gt(wl_interval(loadings2[2]), wl_interval(loadings1[2]))
    THEN [table |-> 2, grid |-> loadings1[2]]
    ELSE IF Gt(wl_interval(loadings1[2]), wl_interval(loadings2[2]))
    THEN [table |-> 1, grid |-> loadings2[2]]
    ELSE [table |-> 0, grid |-> None]

NoAlignment == [table |-> 0, grid |-> None]

\* scipy.stats.pearsonr(x, y)[0] for vectors of one length (the tables
\* are chosen so that every correlation is rational)
Deviations(x) == [k \in 1..Len(x) |-> Sub(x[k], Div(SumSeq(x), R(Len(x))))]

pearsonr(x, y) ==
    Div(Dot(Deviations(x), Deviations(y)),
        SqrtQ(Mul(Dot(Deviations(x), Deviations(x)), Dot(Deviations(y), Deviations(y)))))

\* lines 1111-1121 on two arrays: m_sim[n1, n2], with its labels
similarity_table(values1, values2) ==
    DataFrame(Mat([n1 \in 1..Len(values1[1]) |-> [n2 \in 1..Len(values2[1]) |->
                      pearsonr(Col(values1, n1), Col(values2, n2))]]),
              [i \in 1..Len(values1[1]) |-> <<"model1 C", i>>],
              [i \in 1..Len(values2[1]) |-> <<"model2 C", i>>])

\* the end of a call of loadings_similarity
FinishSimilarity(m_sim, e, args, aligned) ==
    /\ ret' = IF e = "none" THEN [kind |-> "frame", arr |-> m_sim, others |-> <<>>]
              ELSE NoReturn
    /\ exc' = e
    /\ call' = [fn |-> "loadings_similarity", args |-> args, out |-> aligned]
    /\ last' = [op |-> "loadings_similarity", copy |-> TRUE, arpack |-> FALSE]
    /\ nops' = nops + 1
    /\ UNCHANGED <<ds, model, raw, stdout, split>>

\* With wavelength_alignment only the resampled table becomes an array
\* (lines 1105, 1108); the other is still a DataFrame when line 1117
\* subscripts it with [:, n], which pandas refuses: TypeError,
\* InvalidIndexError or KeyError, by the pandas and Python versions.
\* Without it both are converted
\* (line 1110) and pearsonr refuses vectors of different lengths.
loadings_similarity(loadings1, loadings2, wavelength_alignment) ==
    /\ nops < MaxOps
    /\ IF wavelength_alignment
       THEN IF \/ /\ alignment(loadings1, loadings2).table = 2
                  /\ out_of_bounds(loadings2[2], loadings1[2])
               \/ /\ alignment(loadings1, loadings2).table = 1
                  /\ out_of_bounds(loadings1[2], loadings2[2])
            THEN FinishSimilarity(None, "ValueError",
                                  <<loadings1, loadings2, wavelength_alignment>>, NoAlignment)
            ELSE \E e \in {"TypeError", "InvalidIndexError", "KeyError"} :
                     FinishSimilarity(None, e, <<loadings1, loadings2, wavelength_alignment>>,
                                      alignment(loadings1, loadings2))
       ELSE IF Len(loadings1[2]) # Len(loadings2[2])
            THEN FinishSimilarity(None, "ValueError",
                                  <<loadings1, loadings2, wavelength_alignment>>, NoAlignment)
            ELSE FinishSimilarity(similarity_table(loadings1[1], loadings2[1]), "none",
                                  <<loadings1, loadings2, wavelength_alignment>>, NoAlignment)

\* loadings tables on a grid of 25 nm, on the same grid moved down, and on
\* a grid of 50 nm
LoadingsTables ==
    LET up == <<R(1), R(2), R(3)>>
        down == <<R(3), R(2), R(1)>>
        peak == <<R(1), R(3), R(2)>>
        labels(n) == ComponentLabels(n, "")
    IN  { DataFrame(FromCols(<<up>>, 3), <<250, 275, 300>>, labels(1)),
          DataFrame(FromCols(<<up, peak>>, 3), <<250, 275, 300>>, labels(2)),
          DataFrame(FromCols(<<down, peak>>, 3), <<225, 250, 275>>, labels(2)),
          DataFrame(FromCols(<<<<R(1), R(3)>>>>, 2), <<250, 300>>, labels(1)),
          DataFrame(FromCols(<<<<R(1), R(3)>>, <<R(3), R(1)>>>>, 2), <<250, 300>>, labels(2)) }

InitSimilarity == InitWith({DefaultConfig})

NextSimilarity ==
    \E loadings1 \in LoadingsTables, loadings2 \in LoadingsTables, wavelength_alignment \in BOOLEAN :
        loadings_similarity(loadings1, loadings2, wavelength_alignment)

SpecSimilarity == InitSimilarity /\ [][NextSimilarity]_vars

(* ------------------------------------------------------------------ *)
(* The correctors called on one matrix.                                *)
(* ------------------------------------------------------------------ *)
\* the end of a call of a function of the module on a single matrix
FinishCall(fn, args, out, e) ==
    /\ call' = [fn |-> fn, args |-> args, out |-> out]
    /\ exc' = e
    /\ last' = [op |-> fn, copy |-> TRUE, arpack |-> FALSE]
    /\ nops' = nops + 1
    /\ UNCHANGED <<ds, model, ret, raw, stdout, split>>

\* np.trapz(y, x) along one line. d = diff(x) is multiplied with the sums
\* of neighbouring entries of y under numpy's broadcasting: the two lengths
\* must agree unless one of them is 1, else ValueError
trapz_raises(ylen, xlen) ==
    LET m == Max2(0, xlen - 1)
        k == Max2(0, ylen - 1)
    IN  ~(m = k \/ m = 1 \/ k = 1)

trapz(y, x) ==
    LET d == Vec([t \in 1..Max2(0, Len(x) - 1) |-> R(x[t + 1] - x[t])])
        pairs == Vec([t \in 1..Max2(0, Len(y) - 1) |-> Add(y[t + 1], y[t])])
        n == IF Len(d) = 1 THEN Len(pairs) ELSE Len(d)
    IN  SumSeq(Vec([t \in 1..n |->
            Div(Mul(d[IF Len(d) = 1 THEN 1 ELSE t],
                    pairs[IF Len(pairs) = 1 THEN 1 ELSE t]), R(2))]))

\* intensity[intensity > 0].shape[0]
num_pixels(intensity) ==
    Cardinality({c \in (1..NRows(intensity)) \X (1..NCols(intensity)) :
                    Gt(intensity[c[1]][c[2]], Zero)})

\* line 313 unpacks the triple of eem_cutting, (intensity_cut,
\* ex_range_cut, em_range_cut), as intensity_cut, em_range_cut,
\* ex_range_cut: the name em_range_cut holds the cut excitation axis and
\* the name ex_range_cut the cut emission axis
regional_cut(intensity, ex_range, em_range, em_boundary, ex_boundary) ==
    LET out == eem_cutting(intensity, ex_range, em_range, em_boundary[1], em_boundary[2],
                           ex_boundary[1], ex_boundary[2])
    IN  [intensity_cut |-> out[1], em_range_cut |-> out[2], ex_range_cut |-> out[3]]

\* lines 316-322 for a cut of at least one row and one column: what the
\* integration raises, "none" if it returns
integration_raises(cut) ==
    LET rows == Len(cut.intensity_cut)
        cols == Len(cut.intensity_cut[1])
    IN  IF rows = 1
        THEN IF trapz_raises(cols, Len(cut.em_range_cut)) THEN "ValueError" ELSE "none"
        ELSE IF cols = 1
        THEN IF trapz_raises(rows, Len(cut.ex_range_cut)) THEN "ValueError" ELSE "none"
        ELSE IF \/ trapz_raises(rows, Len(cut.ex_range_cut))
                \/ trapz_raises(cols, Len(cut.em_range_cut))
        THEN "ValueError" ELSE "none"

\* lines 316-322 when nothing is raised
integration(cut) ==
    LET rows == Len(cut.intensity_cut)
        cols == Len(cut.intensity_cut[1])
        column(j) == Vec([i \in 1..rows |-> cut.intensity_cut[i][j]])
        result_x == Vec([j \in 1..cols |-> trapz(column(j), Reverse(cut.ex_range_cut))])
    IN  IF rows = 1 THEN trapz(cut.intensity_cut[1], cut.em_range_cut)
        ELSE IF cols = 1 THEN trapz(column(1), cut.ex_range_cut)
        ELSE AbsQ(trapz(result_x, cut.em_range_cut))

\* eem_regional_integration: returns (integration, avg_regional_intensity,
\* num_pixels)
eem_regional_integration(intensity, ex_range, em_range, em_boundary, ex_boundary) ==
    LET cut == regional_cut(intensity, ex_range, em_range, em_boundary, ex_boundary)
        total == integration(cut)
    IN  <<total, Div(total, R(num_pixels(intensity))), num_pixels(intensity)>>

\* matrices on an excitation axis of 25 nm steps and an emission axis of
\* 20 nm steps: one whose cells all differ, one of uniform intensity, one
\* uniform on its two upper rows and zero below
RegionExRange == <<250, 275, 300>>

RegionEmRange == <<260, 280, 300, 320>>

RegionMatrices ==
    LET I == Len(RegionExRange)
        J == Len(RegionEmRange)
    IN  { Mat([i \in 1..I |-> [j \in 1..J |-> R(10 * i + j)]]),
          Mat([i \in 1..I |-> [j \in 1..J |-> R(2)]]),
          Mat([i \in 1..I |-> [j \in 1..J |-> IF i <= 2 THEN R(3) ELSE Zero]]) }

\* boundaries on the axis, between two entries and beyond its ends
ExBounds == {240, 275, 290, 300}

EmBounds == {250, 270, 300, 330}

region_masking_call(intensity, em_min, em_max, ex_min, ex_max, fill_value) ==
    /\ nops < MaxOps
    /\ FinishCall("eem_region_masking",
                  [intensity |-> intensity, ex_range |-> RegionExRange, em_range |-> RegionEmRange,
                   em |-> <<em_min, em_max>>, ex |-> <<ex_min, ex_max>>, fill_value |-> fill_value],
                  eem_region_masking(intensity, RegionExRange, RegionEmRange,
                                     em_min, em_max, ex_min, ex_max, fill_value),
                  "none")

cutting_call(intensity, em_min, em_max, ex_min, ex_max) ==
    /\ nops < MaxOps
    /\ FinishCall("eem_cutting",
                  [intensity |-> intensity, ex_range |-> RegionExRange, em_range |-> RegionEmRange,
                   em |-> <<em_min, em_max>>, ex |-> <<ex_min, ex_max>>, fill_value |-> "none"],
                  eem_cutting(intensity, RegionExRange, RegionEmRange, em_min, em_max, ex_min, ex_max),
                  "none")

regional_integration_call(intensity, em_boundary, ex_boundary) ==
    /\ nops < MaxOps
    /\ em_boundary[1] <= em_boundary[2]
    /\ ex_boundary[1] <= ex_boundary[2]
    /\ LET args == [intensity |-> intensity, ex_range |-> RegionExRange,
                    em_range |-> RegionEmRange, em |-> em_boundary, ex |-> ex_boundary,
                    fill_value |-> "none"]
           cut == regional_cut(intensity, RegionExRange, RegionEmRange, em_boundary, ex_boundary)
       IN  IF integration_raises(cut) # "none"
           THEN FinishCall("eem_regional_integration", args, <<>>, integration_raises(cut))
           ELSE FinishCall("eem_regional_integration", args,
                           eem_regional_integration(intensity, RegionExRange, RegionEmRange,
                                                    em_boundary, ex_boundary),
                           "none")

MaxRegionCalls == 1

NextRegion ==
    \/ \E intensity \in RegionMatrices, em_min \in EmBounds, em_max \in EmBounds,
          ex_min \in ExBounds, ex_max \in ExBounds, fill_value \in {"nan", "zero"} :
           nops < MaxRegionCalls
           /\ region_masking_call(intensity, em_min, em_max, ex_min, ex_max, fill_value)
    \/ \E intensity \in RegionMatrices, em_min \in EmBounds, em_max \in EmBounds,
          ex_min \in ExBounds, ex_max \in ExBounds :
           nops < MaxRegionCalls
           /\ cutting_call(intensity, em_min, em_max, ex_min, ex_max)
    \/ \E intensity \in RegionMatrices, em_min \in EmBounds, em_max \in EmBounds,
          ex_min \in ExBounds, ex_max \in ExBounds :
           nops < MaxRegionCalls
           /\ regional_integration_call(intensity, <<em_min, em_max>>, <<ex_min, ex_max>>)

SpecRegion == InitDataset /\ [][NextRegion]_vars

(* ------------------------------------------------------------------ *)
(* eem_raman_masking and eem_rayleigh_masking called on one matrix.    *)
(* ------------------------------------------------------------------ *)
\* excitation axes whose Raman and Rayleigh ridges fall below, inside and
\* beyond the emission axis
MaskingExRanges == {<<250, 300>>, <<200, 280>>, <<270, 300>>}

\* an emission axis of 20 nm steps, and one of a single wavelength
MaskingEmRanges == {<<260, 280, 300, 320>>, <<300>>}

\* a matrix of positive intensities that all differ
MaskingMatrix(ex_range, em_range) ==
    Mat([i \in 1..Len(ex_range) |-> [j \in 1..Len(em_range) |-> R(10 * i + j)]])

\* the default tolerance of either function and a wide one
MaskingTolerances == {RamanTolerance, RayleighTolerance, 30}

FillMethods == {"zero", "nan", "linear"}

FillAxes == {"grid", "ex", "em"}

raman_masking_call(ex_range, em_range, tolerance, method, axis, single) ==
    /\ nops < MaxOps
    /\ LET intensity == MaskingMatrix(ex_range, em_range)
           args == [intensity |-> intensity, ex_range |-> ex_range, em_range |-> em_range,
                    tolerance |-> <<tolerance>>, method |-> <<method>>, axis |-> <<axis>>,
                    single |-> single]
       IN  IF tol_emidx_raises(em_range)
           THEN FinishCall("eem_raman_masking", args, <<>>, "IndexError")
           ELSE IF eem_raman_masking_raises(method, axis)
           THEN FinishCall("eem_raman_masking", args, <<>>, "TypeError")
           ELSE FinishCall("eem_raman_masking", args,
                           eem_raman_masking(intensity, ex_range, em_range, tolerance,
                                             method, axis, single),
                           "none")

rayleigh_masking_call(ex_range, em_range, tolerance, methods, axes, single) ==
    /\ nops < MaxOps
    /\ LET intensity == MaskingMatrix(ex_range, em_range)
           args == [intensity |-> intensity, ex_range |-> ex_range, em_range |-> em_range,
                    tolerance |-> <<tolerance, tolerance>>, method |-> methods, axis |-> axes,
                    single |-> single]
       IN  IF tol_emidx_raises(em_range)
           THEN FinishCall("eem_rayleigh_masking", args, <<>>, "IndexError")
           ELSE IF eem_rayleigh_masking_raises(axes[1], axes[2], methods[1], methods[2])
           THEN FinishCall("eem_rayleigh_masking", args, <<>>, "TypeError")
           ELSE FinishCall("eem_rayleigh_masking", args,
                           eem_rayleigh_masking(intensity, ex_range, em_range, tolerance,
                                                tolerance, axes[1], axes[2],
                                                methods[1], methods[2], single),
                           "none")

MaxMaskingCalls == 1

NextMasking ==
    \/ \E ex_range \in MaskingExRanges, em_range \in MaskingEmRanges,
          tolerance \in MaskingTolerances, method \in FillMethods, axis \in FillAxes,
          single \in SingleNode :
           nops < MaxMaskingCalls
           /\ raman_masking_call(ex_range, em_range, tolerance, method, axis, single)
    \/ \E ex_range \in MaskingExRanges, em_range \in MaskingEmRanges,
          tolerance \in MaskingTolerances, methods \in FillMethods \X FillMethods,
          axes \in FillAxes \X FillAxes, single \in SingleNode :
           nops < MaxMaskingCalls
           /\ rayleigh_masking_call(ex_range, em_range, tolerance, methods, axes, single)

SpecMasking == InitDataset /\ [][NextMasking]_vars

(* ------------------------------------------------------------------ *)
(* The greedy matching of align_parafac_components (lines 1220-1231)   *)
(* on similarity tables with negative entries, zeros and ties.         *)
(* ------------------------------------------------------------------ *)
\* models of one, two and three components, as establish leaves them
MatchRanks == {1, 2, 3}

MatchComponents(N, I, J) ==
    << <<AUp(N), HalfVec(I, 1, 3), HalfVec(J, 3, 1)>>,
       <<Reverse(AUp(N)), HalfVec(I, 2, 1), HalfVec(J, 0, 2)>>,
       <<AFlat(N), HalfVec(I, 3, 1), HalfVec(J, 1, 3)>> >>

MatchModel(d, rank) ==
    LET N == Len(d.eem_stack.arr)
        I == NRows(d.eem_stack.arr[1])
        J == NCols(d.eem_stack.arr[1])
        k == MatchComponents(N, I, J)
    IN  established_model(<<[r \in 1..rank |-> One],
                            <<FromCols([r \in 1..rank |-> k[r][1]], N),
                              FromCols([r \in 1..rank |-> k[r][2]], I),
                              FromCols([r \in 1..rank |-> k[r][3]], J)>>>>,
                          AlignConfig(rank), establish_inputs(d, AlignConfig(rank)))

\* similarities in [-1, 1]: a negative value, zero and a positive value
MatchValues == {Q(-1, 2), Zero, One}

\* the largest table enumerated has MaxMatchCells entries
MaxMatchCells == 6

MatchMatrices(m1, m2) ==
    IF n_components(m1) * n_components(m2) > MaxMatchCells THEN {}
    ELSE [1..n_components(m1) -> [1..n_components(m2) -> MatchValues]]

InitMatch ==
    /\ split = NoSplit
    /\ call = NoCall
    /\ ds \in InitDatasets
    /\ model \in { MatchModel(ds, rank) : rank \in MatchRanks }
    /\ ret = NoReturn
    /\ exc = "none"
    /\ raw = None
    /\ stdout = ""
    /\ last = [op |-> "init", copy |-> TRUE, arpack |-> FALSE]
    /\ nops = 0

MaxMatchOps == 1

NextMatch ==
    \E model2 \in { MatchModel(ds, rank) : rank \in MatchRanks } :
        \E m_sim \in MatchMatrices(model, model2) :
            nops < MaxMatchOps /\ align_parafac_components(model2, m_sim)

SpecMatch == InitMatch /\ [][NextMatch]_vars

(* ------------------------------------------------------------------ *)
(* Properties.                                                         *)
(* ------------------------------------------------------------------ *)
\* C1: a processing method called with copy=True leaves the dataset's
\* stack, excitation axis and emission axis exactly as they were, whatever
\* calls came before.
C1_CopyTrueLeavesDataset ==
    [][(last'.op \in ProcessingMethods /\ last'.copy) =>
          /\ ds'.eem_stack = ds.eem_stack
          /\ ds'.ex_range = ds.ex_range
          /\ ds'.em_range = ds.em_range]_vars

\* a copy=True call has returned a corrected stack that differs from the
\* stack the dataset still holds
C1_Witness ==
    /\ last.op \in ProcessingMethods
    /\ last.copy
    /\ exc = "none"
    /\ IsArray(ds)
    /\ ret.arr # ds.eem_stack.arr

\* C2: after a processing method called with copy=False has returned, the
\* dataset's stack is the corrected 3-D array the call returned, with as
\* many samples as before and as many rows and columns as the dataset's
\* excitation and emission axes have entries.
C2_CopyFalseStoresCorrectedStack ==
    (last.op \in ProcessingMethods /\ ~last.copy /\ exc = "none") =>
        /\ ds.eem_stack.kind = "ndarray"
        /\ ds.eem_stack.arr = ret.arr
        /\ Len(ds.eem_stack.arr) = InitSamples
        /\ \A n \in 1..Len(ds.eem_stack.arr) :
              /\ NRows(ds.eem_stack.arr[n]) = Len(ds.ex_range)
              /\ NCols(ds.eem_stack.arr[n]) = Len(ds.em_range)

\* C3: establish leaves the stack of the dataset passed to it unchanged,
\* for every model configuration.
C3_EstablishLeavesDataset ==
    [][last'.op = "establish" => ds'.eem_stack = ds.eem_stack]_vars

\* C4: when the factorization routine fails numerically, establish prints
\* the diagnostic message, raises nothing, and a model that was never
\* established has every attribute unset.
C4_ArpackFailureIsRecoverable ==
    (last.op = "establish" /\ last.arpack) =>
        /\ stdout = ArpackMessage
        /\ exc = "none"
        /\ (\A x \in Attributes : model.origin[x] = 0) =>
               \A x \in Attributes : model[x] = None

C6_EstablishReplacesAllDerivedState ==
    /\ \A x \in Attributes : model.origin[x] = 0 <=> model[x] = None
    /\ (last.op = "establish" /\ exc = "none") =>
          LET derived == establish_derive(raw.cptensors, raw.tf_weights, model.cfg, ds)
          IN  \A x \in Attributes : model.origin[x] = nops /\ model[x] = derived[x]

\* a second establish has succeeded, on a stack other than the first one's
C6_Witness ==
    /\ last.op = "establish"
    /\ exc = "none"
    /\ model.prev_train # None
    /\ model.prev_train # model.eem_stack_train

\* C7: after a fit on the dataset an established model was trained on, the
\* call has returned per-sample scores and Fmax equal to the model's score
\* and Fmax tables.
C7_FitReproducesTraining ==
    (/\ last.op = "fit"
     /\ model.score # None
     /\ IsArray(ds)
     /\ ds.eem_stack.arr = model.eem_stack_train
     /\ ds.ex_range = model.ex_range
     /\ ds.em_range = model.em_range) =>
        /\ exc = "none"
        /\ ret.others[1] = model.score[1]
        /\ ret.others[2] = model.fmax[1]

C9_MaximumNormalization ==
    (last.op = "establish" /\ exc = "none" /\ model.cfg.loadings_normalization = "maximum") =>
        \A r \in 1..model.cfg.rank :
            /\ MaxSeq(Col(model.ex_loadings[1], r)) = One
            /\ MaxSeq(Col(model.em_loadings[1], r)) = One

\* C10: an establish with sort_em=True whose factorization returned ends
\* with the components in ascending order of the emission wavelength of
\* their emission-loading peak; with sort_em=False the emission loadings
\* are in the factorization's order.
C10_SortedByEmissionPeak ==
    (last.op = "establish" /\ raw # None) =>
        IF model.cfg.sort_em
        THEN /\ exc = "none"
             /\ \A r \in 1..(model.cfg.rank - 1) :
                   LET peak(q) ==
                           LET col == Col(model.em_loadings[1], q)
                               k == CHOOSE k \in 1..Len(col) :
                                        /\ col[k] = MaxSeq(col)
                                        /\ \A l \in 1..(k - 1) : col[l] # MaxSeq(col)
                           IN  model.em_loadings[2][k]
                   IN  peak(r) <= peak(r + 1)
        ELSE exc = "none" /\ model.em_loadings[1] = model.cptensors[2][3]

\* the positions of the parent at which the sample of row k of a
\* sub-dataset stands with its stack slice, its reference value and its
\* identifier together
ParentRows(parent, sub, k) ==
    {n \in 1..Len(parent.eem_stack.arr) :
        /\ parent.eem_stack.arr[n] = sub.eem_stack.arr[k]
        /\ parent.ref[n] = sub.ref[k]
        /\ parent.index[n] = sub.index[k]}

\* the rows of the sub-datasets that hold the sample of position n
RowsOf(parent, subs, n) ==
    {p \in {<<j, k>> : j \in 1..Len(subs), k \in 1..SplitSamples} :
        /\ p[2] <= Len(subs[p[1]].eem_stack.arr)
        /\ subs[p[1]].eem_stack.arr[p[2]] = parent.eem_stack.arr[n]}

RECURSIVE Chain(_, _)
Chain(subs, j) == IF j = 0 THEN <<>> ELSE Chain(subs, j - 1) \o subs[j].index

IsPartition(parent, subs, n_split, rule) ==
    /\ Len(subs) = n_split
    /\ \A n \in 1..Len(parent.eem_stack.arr) : Cardinality(RowsOf(parent, subs, n)) = 1
    /\ \A j \in 1..Len(subs) :
          /\ Len(subs[j].ref) = Len(subs[j].eem_stack.arr)
          /\ Len(subs[j].index) = Len(subs[j].eem_stack.arr)
          /\ \A k \in 1..Len(subs[j].eem_stack.arr) : ParentRows(parent, subs[j], k) # {}
    /\ \A i, j \in 1..Len(subs) :
          Len(subs[i].eem_stack.arr) - Len(subs[j].eem_stack.arr) \in {-1, 0, 1}
    /\ rule = "sequential" => Chain(subs, Len(subs)) = parent.index

\* a call of splitting with a positive n_split and one of the two rules,
\* on a dataset whose stack is an array, has just ended
SplittingCalled ==
    /\ last.op = "splitting"
    /\ IsArray(Object(1))
    /\ split.args[1] >= 1
    /\ split.args[2] \in {"random", "sequential"}

\* C11: splitting(n_split, rule) returns exactly n_split sub-datasets whose
\* sample sets are pairwise disjoint and together hold every sample of the
\* parent exactly once, with sizes differing by at most one; 'sequential'
\* keeps the parent's order; row k of the stack, of the reference vector and
\* of the identifier list of a sub-dataset belong to one parent sample.
C11_SplittingPartitions ==
    SplittingCalled =>
        /\ exc = "none"
        /\ ret.kind = "list"
        /\ IsPartition(Object(1), ret.others, split.args[1], split.args[2])

\* what holds of splitting instead: whenever it returns, on a dataset that
\* carries a reference vector and an identifier list, the sub-datasets are
\* such a partition
C11_PartitionWhenReturned ==
    (SplittingCalled /\ exc = "none") =>
        /\ ret.kind = "list"
        /\ IsPartition(Object(1), ret.others, split.args[1], split.args[2])

C11_ReturnedUneven ==
    /\ SplittingCalled
    /\ exc = "none"
    /\ split.args = <<2, "random">>
    /\ ret.others[1].index = <<Object(1).index[3], Object(1).index[1]>>
    /\ ret.others[2].index = <<Object(1).index[2]>>

\* a step in which a processing method ran on the dataset in focus
ProcessedInPlace == nops' = nops + 1 /\ last'.op # "splitting" /\ ~last'.copy

\* C12: no sub-dataset made by splitting shares its stack with the parent
\* or with a sibling, and an in-place (copy=False) operation on the parent
\* or on a sub-dataset leaves the stack of every other dataset unchanged.
C12_SubDatasetsNeverAlias ==
    [][/\ split'.shares = {}
       /\ ProcessedInPlace =>
             /\ split'.focus = split.focus
             /\ Len(split'.objs) = Len(split.objs)
             /\ \A i \in 1..Len(split.objs) :
                   i # split.focus => split'.objs[i] = split.objs[i]]_vars

\* a sub-dataset has been cut in place to a smaller grid while the parent
\* and a sibling still hold the stacks they had when splitting returned
C12_Witness ==
    /\ split.focus = 2
    /\ Len(split.objs) >= 3
    /\ last.op = "cutting"
    /\ ~last.copy
    /\ exc = "none"
    /\ ret.kind = "ndarray"
    /\ Len(ds.eem_stack.arr) > 0
    /\ Len(split.objs[3].eem_stack.arr) > 0
    /\ Len(ds.eem_stack.arr[1][1]) < Len(split.objs[3].eem_stack.arr[1][1])
    /\ Len(split.objs[1].eem_stack.arr) = SplitSamples

\* run has got past its call of splitting and has enumerated the pairs
PairsEnumerated ==
    /\ call.fn = "run"
    /\ last.op = "run"
    /\ exc \in {"IndexError", "UnboundLocalError"}

Members(side) == {side[k] : k \in 1..Len(side)}

\* the two sides of a pair are equally many and disjoint, and the label of
\* each side spells the letters of its subsets
PairIsSound(pair, labels) ==
    /\ Len(pair[1]) = Len(pair[2])
    /\ Members(pair[1]) \cap Members(pair[2]) = {}
    /\ \A s \in 1..2 :
          /\ Len(labels[s]) = Len(pair[s])
          /\ \A k \in 1..Len(pair[s]) : labels[s][k] = ascii_uppercase[pair[s][k] + 1]

\* C13: for every n_split >= 2 and every combination_size (an integer cs
\* with 2 * cs <= n_split, or 'half', odd n_split included), every pair that
\* run enumerates has two sides of the same number of subsets that share no
\* subset, and each side's letter label names exactly that side's subsets.
C13_PairsAreComplementary ==
    (/\ PairsEnumerated
     /\ call.args.n_split >= 2
     /\ \/ call.args.combination_size = Keyword("half")
        \/ 2 * call.args.combination_size[2] <= call.args.n_split) =>
        /\ Len(call.out.combo_labels) = Len(call.out.combos)
        /\ \A p \in 1..Len(call.out.combos) :
              PairIsSound(call.out.combos[p], call.out.combo_labels[p])

\* the same with 'half' kept to even n_split
C13_PairsAreComplementaryWhenEven ==
    (/\ PairsEnumerated
     /\ call.args.n_split >= 2
     /\ \/ call.args.combination_size = Keyword("half") /\ call.args.n_split % 2 = 0
        \/ /\ call.args.combination_size # Keyword("half")
           /\ 2 * call.args.combination_size[2] <= call.args.n_split) =>
        /\ Len(call.out.combo_labels) = Len(call.out.combos)
        /\ call.out.combos # <<>>
        /\ \A p \in 1..Len(call.out.combos) :
              PairIsSound(call.out.combos[p], call.out.combo_labels[p])

\* the unordered pair of the two sides' subset sets
Sides(pair) == {Members(pair[1]), Members(pair[2])}

\* C14: with n_split=4, combination_size=1 and n_test='max' run enumerates
\* and tests exactly 3 unique pairs, and no unordered pair of sides (a pair
\* and its mirror) is enumerated twice.
C14_ThreeUniquePairs ==
    (/\ PairsEnumerated
     /\ call.args.n_split = 4
     /\ call.args.combination_size = PyInt(1)
     /\ call.args.n_test = Keyword("max")) =>
        /\ Len(call.out.combos) = 3
        /\ call.out.n_t = 3
        /\ \A p, q \in 1..Len(call.out.combos) :
              p # q => Sides(call.out.combos[p]) # Sides(call.out.combos[q])

\* what the enumeration of that case gives: the six pairs of single
\* subsets, none of them twice in either order
C14_SixUniquePairs ==
    (/\ PairsEnumerated
     /\ call.args.n_split = 4
     /\ call.args.combination_size = PyInt(1)
     /\ call.args.n_test = Keyword("max")) =>
        /\ Len(call.out.combos) = 6
        /\ call.out.n_t = 6
        /\ \A p, q \in 1..Len(call.out.combos) :
              p # q => Sides(call.out.combos[p]) # Sides(call.out.combos[q])

\* run was called on a dataset that splitting accepts: an array stack, a
\* reference vector and an identifier list
RunCalled ==
    /\ call.fn = "run"
    /\ last.op = "run"
    /\ IsArray(ds)
    /\ ds.ref # None
    /\ ds.index # None
    /\ call.args.n_split >= 2

\* C15: every pair that run tests works on its own copies of the subset
\* data, so run leaves the dataset and the split subsets as they were and
\* records for every selected pair similarity values that do not depend on
\* the order in which the pairs are processed.
C15_PairsAreIndependent ==
    RunCalled =>
        /\ exc = "none"
        /\ call.out.similarities_ex # None
        /\ call.out.similarities_em # None
        /\ call.out.eem_subsets # None

\* combine_eem_datasets has just been called on a list of datasets
CombineCalled ==
    /\ call.fn = "combine_eem_datasets"
    /\ last.op = "combine_eem_datasets"
    /\ call.args # <<>>

\* np.array_equal fails for some dataset of the list against the first
AxesDiffer(list_eem_datasets) ==
    \E k \in 1..Len(list_eem_datasets) :
        \/ list_eem_datasets[k].ex_range # list_eem_datasets[1].ex_range
        \/ list_eem_datasets[k].em_range # list_eem_datasets[1].em_range

\* C16: combine_eem_datasets compares the axes of every dataset with those
\* of the first; when some differ a warning reaches the caller, and the
\* call still completes.
C16_MismatchWarns ==
    (/\ CombineCalled
     /\ \A k \in 1..Len(call.args) : call.args[k].ref # None /\ call.args[k].index # None
     /\ AxesDiffer(call.args)) =>
        /\ call.out # <<>>
        /\ exc = "none"

\* the stack, the axes, and the reference vector and identifier list when
\* present, agree on the number of samples and on the grid
SharesDimension(d) ==
    /\ TrailingShape(d) \in {<<>>, <<Len(d.ex_range), Len(d.em_range)>>}
    /\ d.ref # None => Len(d.ref) = Len(d.eem_stack.arr)
    /\ d.index # None => Len(d.index) = Len(d.eem_stack.arr)

\* C17: an operation given a stack that does not match the axes, or a
\* reference vector or identifier list whose length is not the number of
\* samples, fails with an error at that operation instead of producing a
\* dataset that breaks the shared dimension; here the operation is
\* combine_eem_datasets.
C17_MismatchFailsAtBoundary ==
    (CombineCalled /\ \E k \in 1..Len(call.args) : ~SharesDimension(call.args[k])) =>
        exc # "none"

\* a step that is a call of an outlier detection method on a dataset with
\* an array stack, a reference vector and an identifier list
OutlierDetectionStep ==
    /\ nops' = nops + 1
    /\ last'.op \in {"outlier_detection_if", "outlier_detection_ocs"}
    /\ IsArray(ds)
    /\ ds.ref # None
    /\ ds.index # None

\* C18: outlier detection with deletion=True removes exactly the samples
\* labelled -1 from the stack, the reference vector and the identifier list
\* together, keeping order and row correspondence; with deletion=False the
\* dataset is unchanged; either way the labels are returned.
C18_DeletionRemovesOutliers ==
    [][OutlierDetectionStep =>
          /\ exc' = "none"
          /\ ret'.kind = "labels"
          /\ Len(ret'.arr) = Len(ds.eem_stack.arr)
          /\ ds' = IF last'.copy THEN ds ELSE delete_outliers(ds, ret'.arr)]_vars

\* the columns of a frame's values in the order given
Permuted(df, order) == FromCols([i \in 1..Len(order) |-> Col(df[1], order[i])], Len(df[1]))

\* align_parafac_components has returned after sorting the model's
\* components by the order it computed
AlignReturned ==
    /\ last.op = "align_parafac_components"
    /\ exc = "none"

\* C19: after align_parafac_components has reordered the components of a
\* model by a permutation p, position i of the score, of the excitation and
\* emission loadings, of Fmax and of the component stack is what position
\* p[i] was before.
C19_SamePermutationEverywhere ==
    AlignReturned =>
        /\ model.ex_loadings[1] = Permuted(call.args.model1.ex_loadings, call.out)
        /\ model.em_loadings[1] = Permuted(call.args.model1.em_loadings, call.out)
        /\ model.score[1] = Permuted(call.args.model1.score, call.out)
        /\ model.fmax[1] = Permuted(call.args.model1.fmax, call.out)
        /\ model.component_stack =
               [i \in 1..Len(call.out) |-> call.args.model1.component_stack[call.out[i]]]

\* what the call does: the excitation loadings are permuted, the score,
\* Fmax and the component stack are left as they were
C19_OnlyExLoadingsSorted ==
    AlignReturned =>
        /\ model.ex_loadings[1] = Permuted(call.args.model1.ex_loadings, call.out)
        /\ model.score = call.args.model1.score
        /\ model.fmax = call.args.model1.fmax
        /\ model.component_stack = call.args.model1.component_stack
        /\ model.em_loadings[2] = model.ex_loadings[2]

\* loadings_similarity was called with wavelength_alignment=True on two
\* tables of different wavelength resolution, each within the range of
\* the other
AlignmentCalled ==
    /\ last.op = "loadings_similarity"
    /\ call.fn = "loadings_similarity"
    /\ call.args[3]
    /\ wl_interval(call.args[1][2]) # wl_interval(call.args[2][2])
    /\ ~out_of_bounds(call.args[1][2], call.args[2][2])
    /\ ~out_of_bounds(call.args[2][2], call.args[1][2])

\* the grid with the larger spacing
Coarser(wl_range1, wl_range2) ==
    IF Gt(wl_interval(wl_range1), wl_interval(wl_range2)) THEN wl_range1 ELSE wl_range2

\* C20: with wavelength_alignment=True and two tables of different
\* wavelength resolution, loadings_similarity compares them on the coarser
\* of the two grids: the table with the finer spacing is resampled onto
\* the grid with the larger spacing, and the similarities are returned.
C20_ComparedOnCoarserGrid ==
    AlignmentCalled =>
        /\ exc = "none"
        /\ call.out.grid = Coarser(call.args[1][2], call.args[2][2])

\* what the call does instead: the table with the larger spacing is the
\* one resampled, onto the finer grid, and the call then raises
C20_ResampledOntoFinerGrid ==
    AlignmentCalled =>
        /\ exc \in {"TypeError", "InvalidIndexError", "KeyError"}
        /\ call.out.grid # Coarser(call.args[1][2], call.args[2][2])
        /\ call.out.grid \in {call.args[1][2], call.args[2][2]}

\* the cells of a matrix, and those a mask marks with 0
Cells(m) == (1..NRows(m)) \X (1..NCols(m))

Blanked(mask) == {c \in Cells(mask) : mask[c[1]][c[2]] = Zero}

\* what eem_cutting and eem_region_masking do to the same matrix for the
\* same boundaries: the blanked cells are a block of rows and columns, the
\* cut is that block of the matrix, cell by cell, and the masked matrix
\* differs from the matrix in that block alone
SameRegion(intensity, cut, masked, fill_value) ==
    LET blank == Blanked(masked[2])
        rows == {c[1] : c \in blank}
        cols == {c[2] : c \in blank}
        row0 == CHOOSE i \in rows : \A k \in rows : i <= k
        col0 == CHOOSE j \in cols : \A k \in cols : j <= k
        fill == IF fill_value = "nan" THEN NaN ELSE Zero
    IN  /\ \A c \in Cells(intensity) :
               masked[1][c[1]][c[2]] = IF c \in blank THEN fill ELSE intensity[c[1]][c[2]]
        /\ blank = rows \X cols
        /\ IF blank = {}
           THEN Len(cut[1]) = 0 \/ \A i \in 1..Len(cut[1]) : Len(cut[1][i]) = 0
           ELSE /\ rows = row0..(row0 + Len(cut[1]) - 1)
                /\ \A i \in 1..Len(cut[1]) :
                       /\ cols = col0..(col0 + Len(cut[1][i]) - 1)
                       /\ \A j \in 1..Len(cut[1][i]) :
                              cut[1][i][j] = intensity[row0 + i - 1][col0 + j - 1]

\* the shape of the cut matrix is (len(ex_range_cut), len(em_range_cut))
CutShapeFitsAxes(cut) ==
    /\ Len(cut[1]) = Len(cut[2])
    /\ \A i \in 1..Len(cut[1]) : Len(cut[1][i]) = Len(cut[3])

\* C21: for the same boundaries eem_region_masking blanks exactly the
\* cells (a block of rows and columns, boundaries included) that
\* eem_cutting retains, and the shape of the cut matrix is the lengths of
\* the cut excitation and emission axes returned with it.
C21_MaskingBlanksWhatCuttingKeeps ==
    /\ call.fn = "eem_cutting" =>
           /\ CutShapeFitsAxes(call.out)
           /\ \A fill_value \in {"nan", "zero"} :
                  SameRegion(call.args.intensity, call.out,
                             eem_region_masking(call.args.intensity, call.args.ex_range,
                                                call.args.em_range, call.args.em[1],
                                                call.args.em[2], call.args.ex[1],
                                                call.args.ex[2], fill_value),
                             fill_value)
    /\ call.fn = "eem_region_masking" =>
           SameRegion(call.args.intensity,
                      eem_cutting(call.args.intensity, call.args.ex_range, call.args.em_range,
                                  call.args.em[1], call.args.em[2],
                                  call.args.ex[1], call.args.ex[2]),
                      call.out, call.args.fill_value)

\* a cut of two rows and three columns inside a matrix whose cells all
\* differ, with one boundary between two axis entries
C21_Witness ==
    /\ call.fn = "eem_cutting"
    /\ exc = "none"
    /\ call.args.em = <<270, 300>>
    /\ call.args.ex = <<275, 300>>
    /\ call.out[1] = <<<<R(11), R(12), R(13)>>, <<R(21), R(22), R(23)>>>>
    /\ call.out[2] = <<275, 300>>
    /\ call.out[3] = <<260, 280, 300>>

\* the cut eem_cutting makes for the arguments of a call
CutOf(args) ==
    eem_cutting(args.intensity, args.ex_range, args.em_range,
                args.em[1], args.em[2], args.ex[1], args.ex[2])

\* the matrix of the call has one intensity over the whole rectangle cut
UniformCut(args, v) ==
    \A i \in 1..Len(CutOf(args)[1]) : \A j \in 1..Len(CutOf(args)[1][i]) :
        CutOf(args)[1][i][j] = v

Width(axis) == R(axis[Len(axis)] - axis[1])

\* intensity times area; a single row is integrated along the emission
\* axis alone and a single column along the excitation axis alone
UniformIntegral(cut, v) ==
    IF Len(cut[2]) = 1 THEN Mul(v, Width(cut[3]))
    ELSE IF Len(cut[3]) = 1 THEN Mul(v, Width(cut[2]))
    ELSE Mul(v, Mul(Width(cut[2]), Width(cut[3])))

IntegratesToArea(v) ==
    /\ exc = "none"
    /\ call.out[1] = UniformIntegral(CutOf(call.args), v)
    /\ call.out[3] = num_pixels(call.args.intensity)
    /\ call.out[2] = Div(call.out[1], R(call.out[3]))

\* C25: eem_regional_integration of a matrix of uniform intensity v over
\* the rectangle returns v times the excitation width times the emission
\* width of the cut, whatever the numbers of rows and columns of the cut,
\* and the average is that integral divided by the number of strictly
\* positive cells of the whole matrix.
C25_UniformRectangleIntegratesToArea ==
    \A v \in {R(2), R(3)} :
        call.fn = "eem_regional_integration" /\ UniformCut(call.args, v)
            => IntegratesToArea(v)

\* what holds instead: the cuts with as many rows as columns integrate to
\* intensity times area
C25_SquareCutsIntegrateToArea ==
    \A v \in {R(2), R(3)} :
        /\ call.fn = "eem_regional_integration"
        /\ UniformCut(call.args, v)
        /\ Len(CutOf(call.args)[2]) = Len(CutOf(call.args)[3])
        => IntegratesToArea(v)

\* a call of eem_raman_masking with the given fill on an emission axis of
\* at least two wavelengths has ended
RamanMaskingCalled(method) ==
    /\ call.fn = "eem_raman_masking"
    /\ call.args.method = <<method>>
    /\ Len(call.args.em_range) >= 2

\* the call returned a matrix whose masked band holds v and nothing else
BandHolds(v) ==
    /\ exc = "none"
    /\ Blanked(call.out[2]) # {}
    /\ \A c \in Blanked(call.out[2]) : call.out[1][c[1]][c[2]] = v

\* C22: eem_raman_masking with method='zero' returns a matrix whose
\* masked band is exactly zero, and with method='nan' one whose masked
\* band is NaN, for every value of the axis argument, its default 'grid'
\* included.
C22_MaskedBandIsFilled ==
    /\ RamanMaskingCalled("zero") => BandHolds(Zero)
    /\ RamanMaskingCalled("nan") => BandHolds(NaN)

\* what holds instead: method='nan' fills the band with NaN for every axis
C22_NanBandIsNaN == RamanMaskingCalled("nan") => BandHolds(NaN)

\* with method='zero' the call raises for axis='grid', and for the axes
\* 'ex' and 'em' no cell of the band becomes zero
C22_ZeroBandIsNeverZero ==
    RamanMaskingCalled("zero") =>
        \/ exc = "TypeError" /\ call.args.axis = <<"grid">>
        \/ /\ exc = "none"
           /\ call.args.axis # <<"grid">>
           /\ \A c \in Blanked(call.out[2]) : call.out[1][c[1]][c[2]] # Zero

\* eem_raman_masking returned its mask
RamanMaskReturned == call.fn = "eem_raman_masking" /\ exc = "none"

\* the row of the mask that carries ex_range[s], and the distance between
\* an emission wavelength and the Raman ridge of ex_range[s]
RowOf(args, s) == Len(args.ex_range) - s + 1

RidgeDistance(args, s, j) == AbsQ(Sub(R(args.em_range[j]), RamanLambda(args.ex_range[s])))

\* the ridge of ex_range[s] lies more than the tolerance below the first
\* or beyond the last emission wavelength
RidgeOutside(args, s) ==
    LET lam == RamanLambda(args.ex_range[s])
        tol == R(args.tolerance[1])
    IN  \/ Lt(Add(lam, tol), R(args.em_range[1]))
        \/ Gt(Sub(lam, tol), R(args.em_range[Len(args.em_range)]))

\* masked cells lie within the tolerance of the ridge, and cells within the
\* tolerance are masked, both up to one step of the emission axis
BandAtRidge(args, mask, s) ==
    LET tol == R(args.tolerance[1])
        step == R(args.em_range[2] - args.em_range[1])
    IN  \A j \in 1..Len(args.em_range) :
            /\ mask[RowOf(args, s)][j] = Zero => Le(RidgeDistance(args, s, j), Add(tol, step))
            /\ Le(RidgeDistance(args, s, j), Sub(tol, step)) => mask[RowOf(args, s)][j] = Zero

\* C23: in the mask of eem_raman_masking the row I-1-s of ex_range[s] has a
\* cell marked exactly when its emission wavelength lies within the
\* tolerance of the ridge -ex/(0.00036*ex - 1), up to one grid cell, and a
\* row whose ridge lies more than the tolerance outside the emission axis
\* has no marked cell.
C23_BandFollowsRidge ==
    RamanMaskReturned =>
        \A s \in 1..Len(call.args.ex_range) :
            /\ BandAtRidge(call.args, call.out[2], s)
            /\ RidgeOutside(call.args, s) =>
                   \A j \in 1..Len(call.args.em_range) :
                       call.out[2][RowOf(call.args, s)][j] = One

\* what holds instead: the rows whose ridge is not farther than the
\* tolerance from the emission axis carry the band at the ridge
C23_BandFollowsRidgeNearAxis ==
    RamanMaskReturned =>
        \A s \in 1..Len(call.args.ex_range) :
            ~RidgeOutside(call.args, s) => BandAtRidge(call.args, call.out[2], s)

\* and every row has a marked cell, wherever its ridge lies
C23_EveryRowIsMarked ==
    RamanMaskReturned =>
        \A i \in 1..Len(call.args.ex_range) :
            \E j \in 1..Len(call.args.em_range) : call.out[2][i][j] = Zero

\* eem_rayleigh_masking returned
RayleighMaskingReturned == call.fn = "eem_rayleigh_masking" /\ exc = "none"

\* the cells below the first-order ridge: row of ex_range[s], emission
\* wavelength smaller than ex_range[s]
BelowRidge(args) ==
    UNION { {<<RowOf(args, s), j>> :
                 j \in {k \in 1..Len(args.em_range) : args.em_range[k] < args.ex_range[s]}} :
            s \in 1..Len(args.ex_range) }

\* C24: after eem_rayleigh_masking every cell whose emission wavelength is
\* below the first-order ridge of its row (emission = excitation
\* wavelength) is zero, whatever fills are chosen for the two orders.
C24_BelowRidgeIsZero ==
    RayleighMaskingReturned =>
        \A c \in BelowRidge(call.args) : call.out[1][c[1]][c[2]] = Zero

\* what holds instead: with the first-order fill 'zero' the cells below
\* the ridge are zero
C24_BelowRidgeIsZeroWithZeroFill ==
    RayleighMaskingReturned /\ call.args.method[1] = "zero" =>
        \A c \in BelowRidge(call.args) : call.out[1][c[1]][c[2]] = Zero

\* with the first-order fill 'nan' the cells below the ridge that belong to
\* the first-order band are NaN, the others zero
C24_BandBelowRidgeIsNaNWithNaNFill ==
    RayleighMaskingReturned /\ call.args.method[1] = "nan" /\ call.args.method[2] # "linear" =>
        \A c \in BelowRidge(call.args) :
            call.out[1][c[1]][c[2]] = IF call.out[2][1][c[1]][c[2]] = Zero THEN NaN ELSE Zero

\* the lines of the 1-D fill: the rows for axis 'em', the columns for 'ex'
Lines(m, axis) == IF axis = "em" THEN 1..NRows(m) ELSE 1..NCols(m)

Line(m, axis, k) == IF axis = "em" THEN m[k] ELSE Vec([i \in 1..NRows(m) |-> m[i][k]])

\* a line with a masked cell and fewer than two unmasked ones
ShortLine(mask, axis, k) ==
    /\ \E t \in 1..Len(Line(mask, axis, k)) : Line(mask, axis, k)[t] = Zero
    /\ Cardinality({t \in 1..Len(Line(mask, axis, k)) : Line(mask, axis, k)[t] = One}) < 2

\* a call of eem_raman_masking with the linear fill along one axis
RamanLineFill ==
    /\ call.fn = "eem_raman_masking"
    /\ call.args.method = <<"linear">>
    /\ call.args.axis \in {<<"ex">>, <<"em">>}

\* a call of eem_rayleigh_masking with the linear fill along one axis for
\* the first order and a constant fill for the second
RayleighLineFill ==
    /\ call.fn = "eem_rayleigh_masking"
    /\ call.args.method \in {<<"linear", "zero">>, <<"linear", "nan">>}
    /\ call.args.axis[1] \in {"ex", "em"}

\* the matrix the first-order fill of eem_rayleigh_masking works on, and
\* the same after the second-order fill alone
RayleighUnfilled(args, masks) ==
    FillMasked(RayleighBelowRidge(args.intensity, args.ex_range, args.em_range,
                                  args.tolerance[1]),
               masks[2], IF args.method[2] = "zero" THEN Zero ELSE NaN)

\* the call returned, and every short line is as the fill found it
ShortLinesKept(before, after, mask, axis) ==
    /\ exc = "none"
    /\ \A k \in Lines(mask, axis) :
           ShortLine(mask, axis, k) => Line(after, axis, k) = Line(before, axis, k)

\* the matrix of the call has a line with too few unmasked points: every
\* row of a matrix with a single emission wavelength, else a short line of
\* the mask of the ridge lambda_em
HasShortLine(args, lambda_em, halfband) ==
    IF Len(args.em_range) < 2 THEN args.axis[1] = "em"
    ELSE \E k \in Lines(args.intensity, args.axis[1]) :
             ShortLine(RidgeMask(args.intensity, args.em_range, args.tolerance[1],
                                 lambda_em, halfband), args.axis[1], k)

RamanShortLine ==
    /\ RamanLineFill
    /\ HasShortLine(call.args,
                    [s \in 1..Len(call.args.ex_range) |-> RamanLambda(call.args.ex_range[s])],
                    FALSE)

RayleighShortLine ==
    /\ RayleighLineFill
    /\ HasShortLine(call.args,
                    [s \in 1..Len(call.args.ex_range) |-> RayleighO1(call.args.ex_range[s])],
                    TRUE)

\* C26: in Raman and Rayleigh masking with a 1-D interpolation fill along
\* 'ex' or 'em', a line with too few unmasked points to interpolate is
\* left unmodified and the call completes without raising.
C26_ShortLinesAreLeft ==
    /\ RamanShortLine =>
           ShortLinesKept(call.args.intensity, call.out[1], call.out[2], call.args.axis[1])
    /\ RayleighShortLine =>
           ShortLinesKept(RayleighUnfilled(call.args, call.out[2]), call.out[1],
                          call.out[2][1], call.args.axis[1])

\* what holds instead: on an emission axis of at least two wavelengths the
\* call returns, and the short lines are left when interp1d refuses a
\* single node
C26_ShortLinesAreLeftByOldInterp1d ==
    /\ RamanShortLine /\ Len(call.args.em_range) >= 2 /\ call.args.single = "ValueError" =>
           ShortLinesKept(call.args.intensity, call.out[1], call.out[2], call.args.axis[1])
    /\ RayleighShortLine /\ Len(call.args.em_range) >= 2 /\ call.args.single = "ValueError" =>
           ShortLinesKept(RayleighUnfilled(call.args, call.out[2]), call.out[1],
                          call.out[2][1], call.args.axis[1])

\* and a line without any unmasked point is left whatever interp1d does
\* with a single node
C26_FullyMaskedLinesAreLeft ==
    RamanLineFill /\ Len(call.args.em_range) >= 2 =>
        /\ exc = "none"
        /\ \A k \in Lines(call.out[2], call.args.axis[1]) :
               (\A t \in 1..Len(Line(call.out[2], call.args.axis[1], k)) :
                    Line(call.out[2], call.args.axis[1], k)[t] = Zero)
               => Line(call.out[1], call.args.axis[1], k)
                      = Line(call.args.intensity, call.args.axis[1], k)

\* a line with a single unmasked point becomes NaN when interp1d accepts a
\* single node
C26_SingleNodeLineBecomesNaN ==
    RamanShortLine /\ Len(call.args.em_range) >= 2 /\ call.args.single = "accepted" =>
        /\ exc = "none"
        /\ \A k \in Lines(call.out[2], call.args.axis[1]) :
               Cardinality({t \in 1..Len(Line(call.out[2], call.args.axis[1], k)) :
                               Line(call.out[2], call.args.axis[1], k)[t] = One}) = 1
               => \A t \in 1..Len(Line(call.out[1], call.args.axis[1], k)) :
                      Line(call.out[1], call.args.axis[1], k)[t] = NaN


\* align_parafac_components was called on two established models
MatchingCalled ==
    /\ call.fn = "align_parafac_components"
    /\ exc # "AttributeError"

\* the similarity table as the loop of line 1223 reads it: one row for
\* each candidate, one column for each reference component
MatchTable == similarity_by_var(call.args.model1, call.args.model2, call.args.m_sim)

\* the number of reference components, ex_ref.shape[1]
ReferenceCount == Min2(n_components(call.args.model1), n_components(call.args.model2))

\* the reference components the loop has assigned a candidate to
AssignedReferences ==
    {n_ref \in 1..ReferenceCount : \A l \in 1..n_ref : call.out[l] # 0}

\* the candidates claimed before reference component n_ref
ClaimedBefore(n_ref) == {call.out[l] : l \in 1..(n_ref - 1)}

\* C27: reference components are taken in index order, each is assigned the
\* candidate of maximum similarity among those not claimed by an earlier
\* reference component, and no candidate is assigned twice.
C27_GreedyMatchTakesBestUnclaimed ==
    MatchingCalled =>
        \A n_ref \in AssignedReferences :
            /\ call.out[n_ref] \in 1..Len(MatchTable)
            /\ call.out[n_ref] \notin ClaimedBefore(n_ref)
            /\ \A k \in (1..Len(MatchTable)) \ ClaimedBefore(n_ref) :
                   Le(MatchTable[k][n_ref], MatchTable[call.out[n_ref]][n_ref])

\* a call that returned in which the best candidate of the second reference
\* component was already claimed by the first, so that another one was taken
C27_Witness ==
    /\ MatchingCalled
    /\ exc = "none"
    /\ ReferenceCount = 2
    /\ argmax(Col(MatchTable, 2)) = call.out[1]
    /\ call.out[2] # call.out[1]
    /\ 2 \in AssignedReferences


\* align_parafac_components has returned after sorting a model1 that has
\* strictly more components than model2
AlignedHasMore ==
    /\ MatchingCalled
    /\ exc = "none"
    /\ n_components(call.args.model1) > n_components(call.args.model2)

\* the positions of the order that hold the unmatched components
LeftoverPositions == (ReferenceCount + 1)..Len(call.out)

\* the order holds every component index of the sorted model exactly once
OrderIsPermutation ==
    /\ Len(call.out) = n_components(call.args.model1)
    /\ {call.out[i] : i \in 1..Len(call.out)} = 1..n_components(call.args.model1)

\* the unmatched components follow the matched ones in ascending order
LeftoversAscend ==
    \A i, j \in LeftoverPositions : i < j => call.out[i] < call.out[j]

\* the column labels the model's loadings had before the call
OrdinaryLabels ==
    {call.args.model1.ex_loadings[3][k] : k \in 1..n_components(call.args.model1)}

\* C28: when the aligned model has strictly more components than the
\* reference, the order is a permutation of all its component indices, the
\* matched candidates first in reference order, then every unmatched
\* component once in ascending order, and the unmatched components carry an
\* overflow label in place of a component label.
C28_LeftoversAppendedAsOverflow ==
    AlignedHasMore =>
        /\ OrderIsPermutation
        /\ AssignedReferences = 1..ReferenceCount
        /\ LeftoversAscend
        /\ \A i \in LeftoverPositions :
               /\ model.ex_loadings[3][i] \notin OrdinaryLabels
               /\ model.em_loadings[3][i] \notin OrdinaryLabels

\* what the call does: the order is such a permutation, and the columns of
\* the sorted loadings keep the labels component 1..R by position
C28_LeftoversKeepComponentLabels ==
    AlignedHasMore =>
        /\ OrderIsPermutation
        /\ AssignedReferences = 1..ReferenceCount
        /\ LeftoversAscend
        /\ model.ex_loadings[3] = call.args.model1.ex_loadings[3]
        /\ model.em_loadings[3] = call.args.model1.ex_loadings[3]

\* a returned call with two unmatched components
C28_TwoLeftovers ==
    /\ AlignedHasMore
    /\ Cardinality(LeftoverPositions) = 2
    /\ call.out[1] = 2


\* every entry of the similarity table is above zero
AllPositive(table) ==
    \A k \in 1..Len(table) : \A n \in 1..Len(table[k]) : Gt(table[k][n], Zero)

\* some candidate not claimed before reference component n_ref has a
\* similarity above zero to it
PositiveUnclaimed(n_ref) ==
    \E k \in (1..Len(MatchTable)) \ ClaimedBefore(n_ref) : Gt(MatchTable[k][n_ref], Zero)

\* C29: for every similarity table with entries in [-1, 1], zeros,
\* negative entries and ties included, the loop of lines 1223-1229 ends:
\* every reference component is assigned a candidate.
C29_MatchingLoopEnds ==
    MatchingCalled =>
        /\ exc # "never returns"
        /\ AssignedReferences = 1..ReferenceCount

\* what holds instead: the loop ends on tables whose entries are all above
\* zero, and where it does not end the reference component it stays on has
\* its best candidate claimed and no unclaimed candidate above zero
C29_LoopEndsOnPositiveTables ==
    (MatchingCalled /\ AllPositive(MatchTable)) =>
        /\ exc # "never returns"
        /\ AssignedReferences = 1..ReferenceCount

C29_LoopStaysWhereNoUnclaimedIsPositive ==
    (MatchingCalled /\ exc = "never returns") =>
        \E n_ref \in 1..ReferenceCount :
            /\ \A l \in 1..(n_ref - 1) : l \in AssignedReferences
            /\ n_ref \notin AssignedReferences
            /\ argmax(Col(MatchTable, n_ref)) \in ClaimedBefore(n_ref)
            /\ ~PositiveUnclaimed(n_ref)

\* two reference components whose best candidate is the same, the other
\* candidate at a negative similarity: the loop stays on the second
C29_TieOnOneCandidate ==
    /\ MatchingCalled
    /\ exc = "never returns"
    /\ Len(MatchTable) = 2
    /\ MatchTable[1] = <<One, One>>
    /\ MatchTable[2] = <<Q(-1, 2), Q(-1, 2)>>


\* the rank-one term of component r of a factorization (weights, [a, b, c])
RankOneTerm(cptensors, r) ==
    Stack3([n \in 1..Len(cptensors[2][1]) |->
               [i \in 1..Len(cptensors[2][2]) |->
                   [j \in 1..Len(cptensors[2][3]) |->
                       Mul(Mul(cptensors[1][r], cptensors[2][1][n][r]),
                           Mul(cptensors[2][2][i][r], cptensors[2][3][j][r]))]]])

\* establish has gone through the loop of lines 849-876 and returned
EstablishReturned ==
    /\ last.op = "establish"
    /\ raw # None
    /\ exc = "none"

\* the scales line 863-874 divide the loadings of component r by
LoadingScales(cptensors, r, loadings_normalization) ==
    LET s == IF model.cfg.non_negativity
             THEN <<Col(cptensors[2][1], r), Col(cptensors[2][2], r), Col(cptensors[2][3], r)>>
             ELSE sign_resolution(Col(cptensors[2][1], r), Col(cptensors[2][2], r),
                                  Col(cptensors[2][3], r))
    IN  IF loadings_normalization = "sd" THEN {Std(s[2]), Std(s[3])}
        ELSE IF loadings_normalization = "maximum" THEN {MaxSeq(s[2]), MinSeq(s[3])}
        ELSE {}

\* C30: sign resolution and loadings normalization leave the rank-one term
\* a_r * (b_r outer c_r) of every component as the factorization returned
\* it, for loadings_normalization 'sd', 'maximum' and None.
C30_RankOneTermsKept ==
    EstablishReturned =>
        \A r \in 1..model.cfg.rank :
            RankOneTerm(model.cptensors, r) = RankOneTerm(raw.cptensors, r)

\* what holds instead: the term is kept where no scale is zero
C30_RankOneTermsKeptByNonZeroScales ==
    EstablishReturned =>
        \A r \in 1..model.cfg.rank :
            Zero \notin LoadingScales(raw.cptensors, r, model.cfg.loadings_normalization) =>
                RankOneTerm(model.cptensors, r) = RankOneTerm(raw.cptensors, r)

\* and lost where one is: the term becomes NaN in some cell
C30_ZeroScaleLosesTerm ==
    EstablishReturned =>
        \A r \in 1..model.cfg.rank :
            Zero \in LoadingScales(raw.cptensors, r, model.cfg.loadings_normalization) =>
                \E n \in 1..Len(model.cptensors[2][1]) :
                    \E i \in 1..Len(model.cptensors[2][2]) :
                        \E j \in 1..Len(model.cptensors[2][3]) :
                            RankOneTerm(model.cptensors, r)[n][i][j] = NaN

====
